---- MODULE Spec2Model ----
(***************************************************************************)
(* CAN communication driver of the dual LaunchXL-F28P65X firmware          *)
(* (can_communication.c): the driver state, the foreground operations      *)
(* CAN_sendMessage, CAN_receiveMessage and CAN_getStats executed statement  *)
(* by statement, and the two notification paths (inbound frame, bus fault)  *)
(* that preempt the foreground between any two statements.                  *)
(***************************************************************************)
EXTENDS Integers, Sequences, FiniteSets, TLC

\* ------------------------------------------------------------------ bounds
\* Cap of each statistics counter (the uint32_t counters are unbounded in
\* practice; calls that would pass the cap are not started).
MaxCount == 2
\* Length of the caller's buffer handed to CAN_sendMessage (longer than a
\* frame, so that reads past index 7 would be visible).
BufLen == 10
\* Inbound-frame notifications that may preempt one CAN_receiveMessage call
\* before its field-by-field copy is complete.
MaxTear == 1

\* ------------------------------------------------------- program constants
CAN_TX_MSG_ID == 291        \* 0x123
CAN_RX_MSG_ID == 1110       \* 0x456
CAN_ECHO_MSG_ID == 1929     \* 0x789
CAN_TX_MSG_OBJ == 1
CAN_RX_MSG_OBJ == 2
CAN_BITRATE_KBPS == 500
CAN_USE_LOOPBACK == 0
FRAME_BYTES == 8            \* uint8_t data[8]
UINT8_MAX == 255            \* width of the dlc argument (uint8_t)

\* ---------------------------------------------------------------- domains
Byte == 0..UINT8_MAX

\* Bits of the error-status word, by name (CAN_ES_*).
ErrBits == {"TXWARN", "RXWARN", "TXERRPASSED", "RXERRPASSED", "BUSOFF"}
\* The error-status words the fault notification is tried with; {} is 0.
ErrorStatuses == {{}, {"TXWARN"}, {"RXERRPASSED", "BUSOFF"}}

\* CAN_Message_t values the bus latches into the receive slot.
FrameA == [id |-> CAN_RX_MSG_ID, dlc |-> 8,
           data |-> <<17, 34, 51, 68, 85, 102, 119, 136>>, timestamp |-> 1]
FrameB == [id |-> CAN_ECHO_MSG_ID, dlc |-> 7,
           data |-> <<17, 34, 51, 68, 85, 102, 119, 0>>, timestamp |-> 2]
Frames == {FrameA, FrameB}

\* static CAN_Message_t lastRxMessage = {0, 0, {0}, 0};
ZeroFrame == [id |-> 0, dlc |-> 0,
              data |-> <<0, 0, 0, 0, 0, 0, 0, 0>>, timestamp |-> 0]
\* Content of a caller's CAN_Message_t before the call (never latched).
StaleFrame == [id |-> 2047, dlc |-> 5,
               data |-> <<9, 9, 9, 9, 9, 9, 9, 9>>, timestamp |-> 7]

\* Caller buffers handed to CAN_sendMessage, and the dlc arguments tried.
Buffers == {[i \in 1..BufLen |-> 160 + i], [i \in 1..BufLen |-> UINT8_MAX]}
Dlcs == {0, 3, FRAME_BYTES, FRAME_BYTES + 1, UINT8_MAX}
MsgIds == {CAN_TX_MSG_ID, CAN_ECHO_MSG_ID}

\* static CAN_Stats_t canStats = {0, 0, 0, 0};
ZeroStats == [messagesTransmitted |-> 0, messagesReceived |-> 0,
              errorCount |-> 0, lastErrorCode |-> {}]

\* "No value" of a record-valued variable, and of a return value.
None == [none |-> TRUE]
NoRet == -1

VARIABLES
    canStats,         \* static CAN_Stats_t canStats
    lastRxMessage,    \* static CAN_Message_t lastRxMessage
    messageReceived,  \* static volatile uint8_t messageReceived
    txFrame,          \* what the call in progress handed to the transmit object
    canHw,            \* configuration of the CAN module
    led,              \* the two indicators
    pc,               \* position of the foreground code
    args,             \* arguments of the call in progress
    msg,              \* *msg of CAN_receiveMessage (the caller's frame)
    statsOut,         \* *stats of CAN_getStats (the caller's record)
    ret,              \* return value of the call in progress
    slotState,        \* history: is a latched frame still unconsumed
    call,             \* history: what held when the call in progress began
    faults,           \* history: the fault notifications so far
    harness,          \* the test harness: its position, locals and tally
    runs              \* two runs of the driver side by side

drv == <<canStats, lastRxMessage, messageReceived, txFrame, canHw, led>>
fg == <<pc, args, msg, statsOut, ret>>
hist == <<slotState, call>>
aux == <<faults, harness, runs>>
vars == <<canStats, lastRxMessage, messageReceived, txFrame, canHw, led,
          pc, args, msg, statsOut, ret, slotState, call, faults, harness,
          runs>>

\* ------------------------------------------------------------ CAN_initModule
\* Configuration of the CAN module before CAN_initModule has run.
HwReset == [clock |-> FALSE, pins |-> FALSE, bitrate |-> 0,
            txObj |-> None, rxObj |-> None, enabled |-> FALSE,
            loopback |-> FALSE, interrupts |-> FALSE]

\* CAN_initModule on the driver state d = [hw, stats, slot, flag, inits]: it
\* sets the module configuration, whatever it was, and touches none of the
\* statics.
HwConfigured ==
    [clock |-> TRUE, pins |-> TRUE, bitrate |-> CAN_BITRATE_KBPS * 1000,
     txObj |-> [obj |-> CAN_TX_MSG_OBJ, id |-> CAN_TX_MSG_ID, type |-> "TX",
                mask |-> 0, rxInt |-> FALSE, len |-> FRAME_BYTES],
     rxObj |-> [obj |-> CAN_RX_MSG_OBJ, id |-> CAN_RX_MSG_ID, type |-> "RX",
                mask |-> 0, rxInt |-> TRUE, len |-> FRAME_BYTES],
     enabled |-> TRUE, loopback |-> (CAN_USE_LOOPBACK = 1),
     interrupts |-> TRUE]

\* Mutant: re-initialisation also clears the statistics.
CAN_initModule_clearsStats(d) ==
    [d EXCEPT !.hw = HwConfigured, !.stats = ZeroStats, !.inits = @ + 1]

\* Mutant: every call flips the test mode of the module.
CAN_initModule_flipsLoopback(d) ==
    [d EXCEPT !.hw = [HwConfigured EXCEPT !.loopback = ~d.hw.loopback],
              !.inits = @ + 1]

\* d.inits counts the calls of CAN_initModule.
CAN_initModule(d) == [d EXCEPT !.hw = HwConfigured, !.inits = @ + 1]

\* The module after it has gone bus-off: it has disconnected itself from the
\* bus and stays so until it is initialised again.
HwBusOff(hw) == [hw EXCEPT !.enabled = FALSE]

\* The history of the fault notifications: their number, the last status
\* word, the calls of CAN_initModule the last one made, and whether one of
\* them came while the harness was in its reporting loop.
\* No fault notification yet.
NoFaults == [count |-> 0, last |-> {}, inits |-> 0, reporting |-> FALSE]

\* Positions of the harness inside its reporting loop (can_unit_tests.c,
\* while(1) of CAN_runUnitTests).
ReportPcs == {"pass_on", "pass_off", "fail_on", "fail_off"}
Reporting == harness # None /\ harness.pc \in ReportPcs

\* State when main() reaches its application loop: statics at their
\* initialisers, both indicators off, CAN_initModule() run once, EINT set.
Init ==
    /\ canStats = ZeroStats
    /\ lastRxMessage = ZeroFrame
    /\ messageReceived = 0
    /\ txFrame = None
    /\ canHw = CAN_initModule([hw |-> HwReset, stats |-> ZeroStats,
                               slot |-> ZeroFrame, flag |-> 0,
                               inits |-> 0]).hw
    /\ led = [status |-> 0, error |-> 0]
    /\ pc = "idle"
    /\ args = None
    /\ msg = None
    /\ statsOut = None
    /\ ret = NoRet
    /\ slotState = "empty"
    /\ call = None
    /\ faults = NoFaults
    /\ harness = None
    /\ runs = None

\* -------------------------------------------------------------- foreground
\* The caller's locals at the start of a call.
Enter(a) ==
    /\ pc = "idle"
    /\ args' = a
    /\ ret' = NoRet
    /\ call' = [stats0 |-> canStats, slot0 |-> slotState, latches |-> 0]

\* A call has returned: its caller drops the locals of the call.
EndCall ==
    /\ pc \in {"tx_ret", "rx_ret", "gs_ret"}
    /\ pc' = "idle"
    /\ args' = None /\ msg' = None /\ statsOut' = None /\ ret' = NoRet
    /\ call' = None /\ txFrame' = None
    /\ UNCHANGED <<canStats, lastRxMessage, messageReceived, canHw,
                   slotState>>

Return ==
    /\ EndCall
    /\ UNCHANGED led
    /\ UNCHANGED aux

\* ----------------------------------------------------------- CAN_sendMessage
\* Mutant: the clamp is missing.
ClampDlc_missing(dlc) == dlc

\* if(dlc > 8U) dlc = 8U;
ClampDlc(dlc) == IF dlc > FRAME_BYTES THEN FRAME_BYTES ELSE dlc

\* Mutant: the padding loop is missing and the copy loop runs to 8.
BuildMsgData_noPad(data, d) == [i \in 1..FRAME_BYTES |-> data[i]]

\* The two loops that fill msgData[8]: copy data[0..d-1], pad with zeros.
BuildMsgData(data, d) ==
    [i \in 1..FRAME_BYTES |-> IF i - 1 < d THEN data[i] ELSE 0]

\* The indices of the caller's buffer the copy loop reads.
DataReads(d) == 0..(d - 1)

\* Entry of CAN_sendMessage(id, data, dlc).
BeginSend(id, data, dlc) ==
    /\ Enter([op |-> "send", id |-> id, data |-> data, dlc |-> dlc,
              reads |-> {}])
    /\ pc' = "tx_build"
    /\ UNCHANGED <<drv, msg, statsOut, slotState>>

CallSend(id, data, dlc) ==
    /\ canStats.messagesTransmitted < MaxCount
    /\ BeginSend(id, data, dlc)
    /\ UNCHANGED aux

\* Clamp, copy, pad and hand the frame to the transmit message object.
SendBuild ==
    /\ pc = "tx_build"
    /\ LET d == ClampDlc(args.dlc) IN
        /\ txFrame' = [obj |-> CAN_TX_MSG_OBJ, len |-> d,
                       data |-> BuildMsgData(args.data, d)]
        /\ args' = [args EXCEPT !.reads = DataReads(d)]
    /\ pc' = "tx_count"
    /\ UNCHANGED <<canStats, lastRxMessage, messageReceived, canHw, led,
                   msg, statsOut, ret, hist>>
    /\ UNCHANGED aux

\* Mutant: an empty frame is not counted.
SendCount_skipsEmpty ==
    /\ pc = "tx_count"
    /\ canStats' = IF args.dlc = 0 THEN canStats
                   ELSE [canStats EXCEPT !.messagesTransmitted = @ + 1]
    /\ pc' = "tx_ret"
    /\ UNCHANGED <<lastRxMessage, messageReceived, txFrame, canHw, led,
                   args, msg, statsOut, ret, hist>>
    /\ UNCHANGED aux

\* canStats.messagesTransmitted++;
SendCount ==
    /\ pc = "tx_count"
    /\ canStats' = [canStats EXCEPT !.messagesTransmitted = @ + 1]
    /\ pc' = "tx_ret"
    /\ UNCHANGED <<lastRxMessage, messageReceived, txFrame, canHw, led,
                   args, msg, statsOut, ret, hist>>
    /\ UNCHANGED aux

\* -------------------------------------------------------- CAN_receiveMessage
\* Entry of CAN_receiveMessage(msg).
BeginReceive ==
    /\ Enter([op |-> "receive", idx |-> 0])
    /\ msg' = StaleFrame
    /\ pc' = "rx_check"
    /\ UNCHANGED <<drv, statsOut, slotState>>

CallReceive ==
    /\ canStats.messagesReceived < MaxCount
    /\ BeginReceive
    /\ UNCHANGED aux

\* Mutant: the output frame is cleared before the flag is tested.
ReceiveCheck_clearsOut ==
    /\ pc = "rx_check"
    /\ msg' = [msg EXCEPT !.dlc = 0]
    /\ IF messageReceived = 0
       THEN ret' = 0 /\ pc' = "rx_ret"
       ELSE ret' = ret /\ pc' = "rx_id"
    /\ UNCHANGED <<drv, args, statsOut, hist>>
    /\ UNCHANGED aux

\* if(messageReceived == 0U) return 0U;
ReceiveCheck ==
    /\ pc = "rx_check"
    /\ IF messageReceived = 0
       THEN ret' = 0 /\ pc' = "rx_ret"
       ELSE ret' = ret /\ pc' = "rx_id"
    /\ UNCHANGED <<drv, args, msg, statsOut, hist>>
    /\ UNCHANGED aux

\* msg->id = lastRxMessage.id;
ReceiveCopyId ==
    /\ pc = "rx_id"
    /\ msg' = [msg EXCEPT !.id = lastRxMessage.id]
    /\ pc' = "rx_dlc"
    /\ UNCHANGED <<drv, args, statsOut, ret, hist>>
    /\ UNCHANGED aux

\* msg->dlc = lastRxMessage.dlc;
ReceiveCopyDlc ==
    /\ pc = "rx_dlc"
    /\ msg' = [msg EXCEPT !.dlc = lastRxMessage.dlc]
    /\ pc' = "rx_data"
    /\ UNCHANGED <<drv, args, statsOut, ret, hist>>
    /\ UNCHANGED aux

\* for(idx = 0U; idx < 8U; idx++) msg->data[idx] = lastRxMessage.data[idx];
ReceiveCopyData ==
    /\ pc = "rx_data"
    /\ msg' = [msg EXCEPT !.data[args.idx + 1] = lastRxMessage.data[args.idx + 1]]
    /\ args' = [args EXCEPT !.idx = @ + 1]
    /\ pc' = IF args.idx + 1 < FRAME_BYTES THEN "rx_data" ELSE "rx_ts"
    /\ UNCHANGED <<drv, statsOut, ret, hist>>
    /\ UNCHANGED aux

\* msg->timestamp = lastRxMessage.timestamp;  (the copy is complete)
ReceiveCopyTimestamp ==
    /\ pc = "rx_ts"
    /\ msg' = [msg EXCEPT !.timestamp = lastRxMessage.timestamp]
    /\ slotState' = "copied"
    /\ pc' = "rx_clear"
    /\ UNCHANGED <<drv, args, statsOut, ret, call>>
    /\ UNCHANGED aux

\* messageReceived = 0U;
ReceiveClear ==
    /\ pc = "rx_clear"
    /\ messageReceived' = 0
    /\ slotState' = IF slotState = "copied" THEN "empty" ELSE slotState
    /\ pc' = "rx_count"
    /\ UNCHANGED <<canStats, lastRxMessage, txFrame, canHw, led,
                   args, msg, statsOut, ret, call>>
    /\ UNCHANGED aux

\* canStats.messagesReceived++; return 1U;
ReceiveCount ==
    /\ pc = "rx_count"
    /\ canStats' = [canStats EXCEPT !.messagesReceived = @ + 1]
    /\ ret' = 1
    /\ pc' = "rx_ret"
    /\ UNCHANGED <<lastRxMessage, messageReceived, txFrame, canHw, led,
                   args, msg, statsOut, hist>>
    /\ UNCHANGED aux

\* -------------------------------------------------------------- CAN_getStats
\* Content of a caller's CAN_Stats_t before the call.
StaleStats == [messagesTransmitted |-> 77, messagesReceived |-> 78,
               errorCount |-> 79, lastErrorCode |-> {"RXWARN"}]

\* Entry of CAN_getStats(stats).
BeginGetStats(p) ==
    /\ Enter([op |-> "getStats", stats |-> p])
    /\ statsOut' = IF p = "null" THEN None ELSE StaleStats
    /\ pc' = "gs_check"
    /\ UNCHANGED <<drv, msg, slotState>>

CallGetStats(p) ==
    /\ BeginGetStats(p)
    /\ UNCHANGED aux

\* Mutant: a null destination is counted as an error.
GetStatsCheck_countsNull ==
    /\ pc = "gs_check"
    /\ IF args.stats = "null"
       THEN /\ ret' = 0 /\ pc' = "gs_ret"
            /\ canStats' = [canStats EXCEPT !.errorCount = @ + 1]
       ELSE /\ ret' = ret /\ pc' = "gs_tx"
            /\ canStats' = canStats
    /\ UNCHANGED <<lastRxMessage, messageReceived, txFrame, canHw, led,
                   args, msg, statsOut, hist>>
    /\ UNCHANGED aux

\* if(stats == 0) return 0U;
GetStatsCheck ==
    /\ pc = "gs_check"
    /\ IF args.stats = "null"
       THEN ret' = 0 /\ pc' = "gs_ret"
       ELSE ret' = ret /\ pc' = "gs_tx"
    /\ UNCHANGED <<drv, args, msg, statsOut, hist>>
    /\ UNCHANGED aux

\* stats->messagesTransmitted = canStats.messagesTransmitted;
GetStatsTransmitted ==
    /\ pc = "gs_tx"
    /\ statsOut' = [statsOut EXCEPT
                        !.messagesTransmitted = canStats.messagesTransmitted]
    /\ pc' = "gs_rx"
    /\ UNCHANGED <<drv, args, msg, ret, hist>>
    /\ UNCHANGED aux

\* stats->messagesReceived = canStats.messagesReceived;
GetStatsReceived ==
    /\ pc = "gs_rx"
    /\ statsOut' = [statsOut EXCEPT
                        !.messagesReceived = canStats.messagesReceived]
    /\ pc' = "gs_err"
    /\ UNCHANGED <<drv, args, msg, ret, hist>>
    /\ UNCHANGED aux

\* Mutant: the wrong field is copied into errorCount.
GetStatsErrors_wrongField ==
    /\ pc = "gs_err"
    /\ statsOut' = [statsOut EXCEPT !.errorCount = canStats.messagesReceived]
    /\ pc' = "gs_code"
    /\ UNCHANGED <<drv, args, msg, ret, hist>>
    /\ UNCHANGED aux

\* stats->errorCount = canStats.errorCount;
GetStatsErrors ==
    /\ pc = "gs_err"
    /\ statsOut' = [statsOut EXCEPT !.errorCount = canStats.errorCount]
    /\ pc' = "gs_code"
    /\ UNCHANGED <<drv, args, msg, ret, hist>>
    /\ UNCHANGED aux

\* stats->lastErrorCode = canStats.lastErrorCode; return 1U;
GetStatsLastCode ==
    /\ pc = "gs_code"
    /\ statsOut' = [statsOut EXCEPT !.lastErrorCode = canStats.lastErrorCode]
    /\ ret' = 1
    /\ pc' = "gs_ret"
    /\ UNCHANGED <<drv, args, msg, hist>>
    /\ UNCHANGED aux

\* ----------------------------------------------------------- notifications
\* Positions of CAN_receiveMessage at which its copy is not yet complete.
CopyPcs == {"rx_check", "rx_id", "rx_dlc", "rx_data", "rx_ts"}

\* Inbound-frame notification: latch the frame, set the availability flag,
\* return.  It preempts the foreground between any two statements.
LatchFrame(f) ==
    /\ canHw.enabled /\ canHw.interrupts /\ canHw.rxObj.rxInt
    /\ pc \in CopyPcs => call.latches < MaxTear
    /\ lastRxMessage' = f
    /\ messageReceived' = 1
    /\ slotState' = IF slotState \in {"pending", "overrun"}
                    THEN "overrun" ELSE "pending"
    /\ call' = IF call = None THEN None
               ELSE [call EXCEPT !.latches = IF @ < MaxTear THEN @ + 1 ELSE @]
    /\ UNCHANGED <<canStats, txFrame, canHw, led, fg>>
    /\ UNCHANGED aux

\* Mutant: the status word is or-ed into lastErrorCode.
CAN_errorHandler_accumulatesCode(d, errorStatus) ==
    LET d1 == [d EXCEPT !.stats.errorCount = @ + 1,
                        !.stats.lastErrorCode = @ \cup errorStatus,
                        !.led.error = 1]
    IN  IF "BUSOFF" \in errorStatus THEN CAN_initModule(d1) ELSE d1

\* Mutant: the module is initialised again only when bus-off is the sole bit.
CAN_errorHandler_busOffAlone(d, errorStatus) ==
    LET d1 == [d EXCEPT !.stats.errorCount = @ + 1,
                        !.stats.lastErrorCode = errorStatus,
                        !.led.error = 1]
    IN  IF errorStatus = {"BUSOFF"} THEN CAN_initModule(d1) ELSE d1

\* Mutant: the module is initialised again on any error bit.
CAN_errorHandler_initsOnAnyBit(d, errorStatus) ==
    LET d1 == [d EXCEPT !.stats.errorCount = @ + 1,
                        !.stats.lastErrorCode = errorStatus,
                        !.led.error = 1]
    IN  IF errorStatus # {} THEN CAN_initModule(d1) ELSE d1

\* Mutant: the re-initialisation on bus-off also drops a pending frame.
CAN_errorHandler_flushesSlot(d, errorStatus) ==
    LET d1 == [d EXCEPT !.stats.errorCount = @ + 1,
                        !.stats.lastErrorCode = errorStatus,
                        !.led.error = 1]
    IN  IF "BUSOFF" \in errorStatus
        THEN [CAN_initModule(d1) EXCEPT !.flag = 0]
        ELSE d1

\* Mutant: the error LED is left alone.
CAN_errorHandler_noLed(d, errorStatus) ==
    LET d1 == [d EXCEPT !.stats.errorCount = @ + 1,
                        !.stats.lastErrorCode = errorStatus]
    IN  IF "BUSOFF" \in errorStatus THEN CAN_initModule(d1) ELSE d1

\* CAN_errorHandler on the driver state d = [hw, stats, slot, flag, led]:
\* count the error, record the status word, turn the error LED on, and
\* initialise the module again when the bus-off bit is set.
CAN_errorHandler(d, errorStatus) ==
    LET d1 == [d EXCEPT !.stats.errorCount = @ + 1,
                        !.stats.lastErrorCode = errorStatus,
                        !.led.error = 1]
    IN  IF "BUSOFF" \in errorStatus THEN CAN_initModule(d1) ELSE d1

\* Fault notification: CAN_errorHandler(errorStatus) runs to completion.
FaultNotification(errorStatus) ==
    /\ canHw.enabled /\ canHw.interrupts
    /\ canStats.errorCount < MaxCount
    /\ LET hw0 == IF "BUSOFF" \in errorStatus THEN HwBusOff(canHw) ELSE canHw
           d == CAN_errorHandler([hw |-> hw0, stats |-> canStats,
                                  slot |-> lastRxMessage,
                                  flag |-> messageReceived,
                                  led |-> led, inits |-> 0], errorStatus)
       IN  /\ canHw' = d.hw
           /\ canStats' = d.stats
           /\ lastRxMessage' = d.slot
           /\ messageReceived' = d.flag
           /\ led' = d.led
           /\ faults' = [count |-> faults.count + 1, last |-> errorStatus,
                         inits |-> d.inits,
                         reporting |-> faults.reporting \/ Reporting]
    /\ UNCHANGED <<txFrame, fg, hist, harness, runs>>

\* ------------------------------------------------------------ specification
Next ==
    \/ \E id \in MsgIds, data \in Buffers, dlc \in Dlcs : CallSend(id, data, dlc)
    \/ SendBuild
    \/ SendCount
    \/ CallReceive
    \/ ReceiveCheck
    \/ ReceiveCopyId
    \/ ReceiveCopyDlc
    \/ ReceiveCopyData
    \/ ReceiveCopyTimestamp
    \/ ReceiveClear
    \/ ReceiveCount
    \/ \E p \in {"null", "out"} : CallGetStats(p)
    \/ GetStatsCheck
    \/ GetStatsTransmitted
    \/ GetStatsReceived
    \/ GetStatsErrors
    \/ GetStatsLastCode
    \/ Return
    \/ \E f \in Frames : LatchFrame(f)
    \/ \E es \in ErrorStatuses : FaultNotification(es)

Spec == Init /\ [][Next]_vars

\* ------------------------------------------------- two runs side by side
\* The driver as a function of its state d = [stats, slot, flag, hw, led, pc,
\* args, msg, ret, txFrame], one statement at a time, so that two runs can
\* be fed the same calls and the same latched frames while only one of them
\* takes fault notifications.
DrvInit ==
    [stats |-> ZeroStats, slot |-> ZeroFrame, flag |-> 0, hw |-> HwConfigured,
     led |-> [status |-> 0, error |-> 0], pc |-> "idle", args |-> None,
     msg |-> None, ret |-> NoRet, txFrame |-> None]

\* Entry of CAN_sendMessage or CAN_receiveMessage with arguments a.
DrvCall(d, a) ==
    IF a.op = "send"
    THEN [d EXCEPT !.args = a, !.ret = NoRet, !.pc = "tx_build"]
    ELSE [d EXCEPT !.args = a, !.ret = NoRet, !.msg = StaleFrame,
                   !.pc = "rx_check"]

\* The statement at d.pc of CAN_sendMessage or CAN_receiveMessage, or the
\* return to the caller.
DrvStmt(d) ==
    CASE d.pc = "tx_build" ->
            LET n == ClampDlc(d.args.dlc)
            IN  [d EXCEPT !.txFrame = [obj |-> CAN_TX_MSG_OBJ, len |-> n,
                                       data |-> BuildMsgData(d.args.data, n)],
                          !.args.reads = DataReads(n), !.pc = "tx_count"]
      [] d.pc = "tx_count" ->
            [d EXCEPT !.stats.messagesTransmitted = @ + 1, !.pc = "tx_ret"]
      [] d.pc = "rx_check" ->
            IF d.flag = 0 THEN [d EXCEPT !.ret = 0, !.pc = "rx_ret"]
            ELSE [d EXCEPT !.pc = "rx_id"]
      [] d.pc = "rx_id" -> [d EXCEPT !.msg.id = d.slot.id, !.pc = "rx_dlc"]
      [] d.pc = "rx_dlc" -> [d EXCEPT !.msg.dlc = d.slot.dlc, !.pc = "rx_data"]
      [] d.pc = "rx_data" ->
            [d EXCEPT !.msg.data[d.args.idx + 1] = d.slot.data[d.args.idx + 1],
                      !.args.idx = @ + 1,
                      !.pc = IF d.args.idx + 1 < FRAME_BYTES
                             THEN "rx_data" ELSE "rx_ts"]
      [] d.pc = "rx_ts" ->
            [d EXCEPT !.msg.timestamp = d.slot.timestamp, !.pc = "rx_clear"]
      [] d.pc = "rx_clear" -> [d EXCEPT !.flag = 0, !.pc = "rx_count"]
      [] d.pc = "rx_count" ->
            [d EXCEPT !.stats.messagesReceived = @ + 1, !.ret = 1,
                      !.pc = "rx_ret"]
      [] d.pc \in {"tx_ret", "rx_ret"} ->
            [d EXCEPT !.pc = "idle", !.args = None, !.msg = None,
                      !.ret = NoRet, !.txFrame = None]

\* The inbound-frame notification latches f.
DrvLatch(d, f) == [d EXCEPT !.slot = f, !.flag = 1]

\* The module goes into the condition errorStatus reports and
\* CAN_errorHandler(errorStatus) runs.
DrvFault(d, errorStatus) ==
    LET hw0 == IF "BUSOFF" \in errorStatus THEN HwBusOff(d.hw) ELSE d.hw
        e == CAN_errorHandler([hw |-> hw0, stats |-> d.stats, slot |-> d.slot,
                               flag |-> d.flag, led |-> d.led, inits |-> 0],
                              errorStatus)
    IN  [d EXCEPT !.hw = e.hw, !.stats = e.stats, !.slot = e.slot,
                  !.flag = e.flag, !.led = e.led]

InitPair ==
    /\ canStats = ZeroStats
    /\ lastRxMessage = ZeroFrame
    /\ messageReceived = 0
    /\ txFrame = None
    /\ canHw = HwConfigured
    /\ led = [status |-> 0, error |-> 0]
    /\ pc = "idle"
    /\ args = None
    /\ msg = None
    /\ statsOut = None
    /\ ret = NoRet
    /\ slotState = "empty"
    /\ call = None
    /\ faults = NoFaults
    /\ harness = None
    /\ runs = [p |-> DrvInit, q |-> DrvInit]

PairVars == <<canStats, lastRxMessage, messageReceived, txFrame, canHw, led,
              pc, args, msg, statsOut, ret, slotState, call, faults, harness>>

\* Both runs get the same call.
PairCall(a) ==
    /\ runs.p.pc = "idle" /\ runs.q.pc = "idle"
    /\ a.op = "send" => runs.p.stats.messagesTransmitted < MaxCount
    /\ a.op = "receive" => runs.p.stats.messagesReceived < MaxCount
    /\ runs' = [p |-> DrvCall(runs.p, a), q |-> DrvCall(runs.q, a)]
    /\ UNCHANGED PairVars

\* Both runs execute their next statement.
PairStmt ==
    /\ runs.p.pc # "idle" /\ runs.q.pc # "idle"
    /\ runs' = [p |-> DrvStmt(runs.p), q |-> DrvStmt(runs.q)]
    /\ UNCHANGED PairVars

\* Both runs get the same frame latched, at the same moment.
PairLatch(f) ==
    /\ runs.p.hw.enabled /\ runs.p.hw.interrupts
    /\ runs' = [p |-> DrvLatch(runs.p, f), q |-> DrvLatch(runs.q, f)]
    /\ UNCHANGED PairVars

\* The first run alone takes a fault notification.
PairFault(errorStatus) ==
    /\ runs.p.hw.enabled /\ runs.p.hw.interrupts
    /\ runs.p.stats.errorCount < MaxCount
    /\ runs' = [runs EXCEPT !.p = DrvFault(@, errorStatus)]
    /\ UNCHANGED PairVars

NextPair ==
    \/ \E id \in MsgIds, data \in Buffers, dlc \in Dlcs :
          PairCall([op |-> "send", id |-> id, data |-> data, dlc |-> dlc,
                    reads |-> {}])
    \/ PairCall([op |-> "receive", idx |-> 0])
    \/ PairStmt
    \/ \E f \in Frames : PairLatch(f)
    \/ \E es \in ErrorStatuses : PairFault(es)

SpecPair == InitPair /\ [][NextPair]_vars

\* ====================================================== can_unit_tests.c
\* The six-test harness CAN_runUnitTests, called by main() in place of the
\* application loop when RUN_UNIT_TESTS is defined.  It runs in the
\* foreground; the notifications preempt it as they preempt main().
\* (Line 158 declares the first snapshot of Test_CAN_TransmitMessage under a
\* garbled name; it is modelled as the statsBeforeTx the function uses.)

\* Polls of CAN_receiveMessage a test makes before it gives up (1000000 in
\* can_unit_tests.c, scaled down).
TEST_TIMEOUT_LOOPS == 2

\* Fault notifications during one run of the harness.
MaxHarnessFaults == 1

\* TEST_DELAY_LOOPS (100000 in can_unit_tests.c) and the literal iteration
\* counts handed to Test_delay, scaled down alike.
TEST_DELAY_LOOPS == 5
STARTUP_DELAY == 5 * TEST_DELAY_LOOPS       \* Test_delay(500000U)
BLINK_DELAY == 2 * TEST_DELAY_LOOPS         \* Test_delay(200000U)
PAUSE_DELAY == 5 * TEST_DELAY_LOOPS         \* Test_delay(500000U)
LONG_PAUSE_DELAY == 10 * TEST_DELAY_LOOPS   \* Test_delay(1000000U)

\* for(i = 0U; i < loops; i++) asm(" NOP");  from i on; the value of i
\* when the loop is left.
RECURSIVE DelayLoop(_, _)
DelayLoop(i, loops) == IF i < loops THEN DelayLoop(i + 1, loops) ELSE i

\* Mutant: the loop runs once more.
Test_delay_oneMore(loops) == DelayLoop(0, loops + 1)

\* Test_delay(loops): the iterations it runs before it returns.
Test_delay(loops) == DelayLoop(0, loops)

TEST_PASS == 1
TEST_FAIL == 0
NUM_TESTS == 6              \* the six if-statements of CAN_runUnitTests
SEQ_MESSAGES == 5           \* for(idx = 0U; idx < 5U; idx++)

\* txData of Test_CAN_TransmitMessage, Test_CAN_DataIntegrity and
\* Test_CAN_SequentialMessages.
TransmitData == <<170, 85, 255, 0, 17, 34, 51, 68>>
IntegrityData == <<1, 2, 3, 4, 5, 6, 7, 8>>
SequentialData(idx) == <<idx % 256, (idx \div 256) % 256,
                         170, 187, 204, 221, 238, 255>>

\* Frames the other board may put on the bus while the harness runs: the
\* data-integrity pattern, and an empty frame.
FrameP == [id |-> CAN_RX_MSG_ID, dlc |-> 8, data |-> IntegrityData,
           timestamp |-> 3]
FrameZ == [id |-> CAN_RX_MSG_ID, dlc |-> 0,
           data |-> <<0, 0, 0, 0, 0, 0, 0, 0>>, timestamp |-> 3]
HarnessFrames == {FrameP, FrameZ}
\* The error-status words the fault notification is tried with while the
\* harness runs: a warning, and bus-off.
HarnessErrorStatuses == {{"TXWARN"}, {"BUSOFF"}}

\* static TestStats_t testStats = {0, 0, 0, 0, 0, {0}}; the fields written.
ZeroTestStats == [passedTests |-> 0, failedTests |-> 0, lastTestResult |-> 0]

\* The harness before its first statement.  test is the test whose verdict
\* is being made, ran the tests tallied so far (history), pulses the pulses
\* of either indicator in the reporting cycle under way (history), cycles
\* whether a reporting cycle has been completed (history), slot0 the state
\* of the receive slot when the send of the test under way began (history),
\* stale whether the frame the test got was latched before that (history),
\* nops the iterations of the last Test_delay (history).
HarnessStart ==
    [pc |-> "start", testStats |-> ZeroTestStats, test |-> 0,
     result |-> NoRet, before |-> None, after |-> None, rxMsg |-> None,
     txData |-> None, timeout |-> 0, idx |-> 0, ran |-> <<>>,
     pulses |-> [pass |-> 0, fail |-> 0], cycles |-> 0,
     slot0 |-> "none", stale |-> FALSE, nops |-> 0]

InitHarness ==
    /\ canStats = ZeroStats
    /\ lastRxMessage = ZeroFrame
    /\ messageReceived = 0
    /\ txFrame = None
    /\ canHw = CAN_initModule([hw |-> HwReset, stats |-> ZeroStats,
                               slot |-> ZeroFrame, flag |-> 0,
                               inits |-> 0]).hw
    /\ led = [status |-> 0, error |-> 0]
    /\ pc = "idle"
    /\ args = None
    /\ msg = None
    /\ statsOut = None
    /\ ret = NoRet
    /\ slotState = "empty"
    /\ call = None
    /\ faults = NoFaults
    /\ harness = HarnessStart
    /\ runs = None

\* ------------------------------------------------------------ step shapes
\* The harness calls a driver function.
HarnessCall(from, begin, h) ==
    /\ harness.pc = from
    /\ begin
    /\ harness' = h
    /\ UNCHANGED <<faults, runs>>

\* A driver function has returned to the harness.
HarnessRet(from, at, h) ==
    /\ harness.pc = from
    /\ pc = at
    /\ EndCall
    /\ harness' = h
    /\ UNCHANGED <<led, faults, runs>>

\* Statements of the harness that call nothing of the driver.
HarnessLocal(from, h, l) ==
    /\ harness.pc = from
    /\ pc = "idle"
    /\ harness' = h
    /\ led' = l
    /\ UNCHANGED <<canStats, lastRxMessage, messageReceived, txFrame, canHw,
                   fg, hist, faults, runs>>

\* A test function returns result: its locals go out of scope.
Verdict(k, result) ==
    [harness EXCEPT !.pc = "print", !.test = k, !.result = result,
                    !.before = None, !.after = None, !.rxMsg = None,
                    !.txData = None, !.timeout = 0, !.idx = 0,
                    !.slot0 = "none", !.stale = FALSE]

\* ------------------------------------------------------ Test_initStatusLEDs
\* and Test_delay(500000U)
RunnerStart ==
    HarnessLocal("start",
                 [harness EXCEPT !.pc = "t1",
                                 !.nops = Test_delay(STARTUP_DELAY)],
                 [status |-> 0, error |-> 0])

\* --------------------------------------------- Test_CAN_BasicInitialization
BasicInitializationVerdict(r, stats) ==
    IF r # 1 THEN TEST_FAIL
    ELSE IF stats.messagesTransmitted # 0 \/ stats.messagesReceived # 0
         THEN TEST_FAIL
         ELSE TEST_PASS

T1_GetStats ==
    HarnessCall("t1", BeginGetStats("out"), [harness EXCEPT !.pc = "t1_gs"])

T1_Verdict ==
    HarnessRet("t1_gs", "gs_ret",
               Verdict(1, BasicInitializationVerdict(ret, statsOut)))

\* ------------------------------------------------- Test_CAN_TransmitMessage
TransmitVerdict(before, after) ==
    IF after.messagesTransmitted > before.messagesTransmitted
    THEN TEST_PASS ELSE TEST_FAIL

T2_GetStatsBefore ==
    HarnessCall("t2", BeginGetStats("out"), [harness EXCEPT !.pc = "t2_gs1"])

T2_GotBefore ==
    HarnessRet("t2_gs1", "gs_ret",
               [harness EXCEPT !.pc = "t2_send", !.before = statsOut])

T2_Send ==
    HarnessCall("t2_send", BeginSend(CAN_TX_MSG_ID, TransmitData, 8),
                [harness EXCEPT !.pc = "t2_tx"])

\* Test_delay(TEST_DELAY_LOOPS);
T2_Sent ==
    HarnessRet("t2_tx", "tx_ret",
               [harness EXCEPT !.pc = "t2_after",
                               !.nops = Test_delay(TEST_DELAY_LOOPS)])

T2_GetStatsAfter ==
    HarnessCall("t2_after", BeginGetStats("out"),
                [harness EXCEPT !.pc = "t2_gs2"])

T2_Verdict ==
    HarnessRet("t2_gs2", "gs_ret",
               Verdict(2, TransmitVerdict(harness.before, statsOut)))

\* -------------------------------------------------- Test_CAN_ReceiveMessage
\* Mutant: an empty frame is accepted.
ReceiveVerdict_acceptsEmpty(timeout, before, after, rxMsg) ==
    IF timeout > 0 /\ after.messagesReceived > before.messagesReceived
    THEN IF rxMsg.dlc >= 0 /\ rxMsg.dlc <= 8 THEN TEST_PASS ELSE TEST_FAIL
    ELSE TEST_FAIL

ReceiveVerdict(timeout, before, after, rxMsg) ==
    IF timeout > 0 /\ after.messagesReceived > before.messagesReceived
    THEN IF rxMsg.dlc > 0 /\ rxMsg.dlc <= 8 THEN TEST_PASS ELSE TEST_FAIL
    ELSE TEST_FAIL

T3_GetStatsBefore ==
    HarnessCall("t3", BeginGetStats("out"), [harness EXCEPT !.pc = "t3_gs1"])

T3_GotBefore ==
    HarnessRet("t3_gs1", "gs_ret",
               [harness EXCEPT !.pc = "t3_loop", !.before = statsOut,
                               !.timeout = TEST_TIMEOUT_LOOPS])

\* while((timeout > 0U) && (CAN_receiveMessage(&rxMsg) == 0U))
T3_Poll ==
    /\ harness.timeout > 0
    /\ HarnessCall("t3_loop", BeginReceive, [harness EXCEPT !.pc = "t3_rx"])

\* Mutant: a poll that returns 0 does not use up budget.
T3_Polled_keepsBudget ==
    HarnessRet("t3_rx", "rx_ret",
               IF ret = 0
               THEN [harness EXCEPT !.pc = "t3_loop"]
               ELSE [harness EXCEPT !.pc = "t3_after", !.rxMsg = msg])

T3_Polled ==
    HarnessRet("t3_rx", "rx_ret",
               IF ret = 0
               THEN [harness EXCEPT !.pc = "t3_loop", !.timeout = @ - 1]
               ELSE [harness EXCEPT !.pc = "t3_after", !.rxMsg = msg])

\* The loop is left on a frame or on timeout == 0.
T3_GetStatsAfter ==
    /\ harness.pc = "t3_loop" => harness.timeout = 0
    /\ \E from \in {"t3_loop", "t3_after"} :
          HarnessCall(from, BeginGetStats("out"),
                      [harness EXCEPT !.pc = "t3_gs2"])

T3_Verdict ==
    HarnessRet("t3_gs2", "gs_ret",
               Verdict(3, ReceiveVerdict(harness.timeout, harness.before,
                                         statsOut, harness.rxMsg)))

\* --------------------------------------------------- Test_CAN_DataIntegrity
DataIntegrityVerdict(timeout, rxMsg, txData) ==
    IF timeout = 0 THEN TEST_FAIL
    ELSE IF rxMsg.dlc # 8 THEN TEST_FAIL
    ELSE IF \A i \in 1..8 : rxMsg.data[i] = txData[i]
         THEN TEST_PASS ELSE TEST_FAIL

\* The frame the call that is returning delivered was in the slot,
\* unconsumed, when the slot was in state slot0, and no frame has been
\* latched since: a latch on an unconsumed frame makes the slot "overrun".
LatchedBefore(slot0) ==
    slot0 = "pending" /\ call.slot0 = "pending" /\ call.latches = 0

T4_Send ==
    HarnessCall("t4", BeginSend(CAN_RX_MSG_ID, IntegrityData, 8),
                [harness EXCEPT !.pc = "t4_tx", !.txData = IntegrityData,
                                !.slot0 = IF slotState = "pending"
                                          THEN "pending" ELSE "none"])

T4_Sent ==
    HarnessRet("t4_tx", "tx_ret",
               [harness EXCEPT !.pc = "t4_loop",
                               !.nops = Test_delay(TEST_DELAY_LOOPS),
                               !.timeout = TEST_TIMEOUT_LOOPS])

T4_Poll ==
    /\ harness.timeout > 0
    /\ HarnessCall("t4_loop", BeginReceive, [harness EXCEPT !.pc = "t4_rx"])

T4_Polled ==
    HarnessRet("t4_rx", "rx_ret",
               IF ret = 0
               THEN [harness EXCEPT !.pc = "t4_loop", !.timeout = @ - 1]
               ELSE [harness EXCEPT !.pc = "t4_check", !.rxMsg = msg,
                                    !.stale = LatchedBefore(harness.slot0)])

T4_Verdict ==
    /\ harness.pc = "t4_loop" => harness.timeout = 0
    /\ \E from \in {"t4_loop", "t4_check"} :
          HarnessLocal(from,
                       Verdict(4, DataIntegrityVerdict(harness.timeout,
                                                       harness.rxMsg,
                                                       harness.txData)),
                       led)

\* ---------------------------------------------- Test_CAN_SequentialMessages
SequentialVerdict(before, after) ==
    IF after.messagesTransmitted - before.messagesTransmitted >= SEQ_MESSAGES
    THEN TEST_PASS ELSE TEST_FAIL

T5_GetStatsBefore ==
    HarnessCall("t5", BeginGetStats("out"), [harness EXCEPT !.pc = "t5_gs1"])

T5_GotBefore ==
    HarnessRet("t5_gs1", "gs_ret",
               [harness EXCEPT !.pc = "t5_loop", !.before = statsOut,
                               !.idx = 0])

T5_Send ==
    /\ harness.idx < SEQ_MESSAGES
    /\ HarnessCall("t5_loop",
                   BeginSend(CAN_ECHO_MSG_ID + harness.idx,
                             SequentialData(harness.idx), 8),
                   [harness EXCEPT !.pc = "t5_tx"])

T5_Sent ==
    HarnessRet("t5_tx", "tx_ret",
               [harness EXCEPT !.pc = "t5_loop", !.idx = @ + 1,
                               !.nops = Test_delay(TEST_DELAY_LOOPS \div 5)])

T5_GetStatsAfter ==
    /\ harness.idx >= SEQ_MESSAGES
    /\ HarnessCall("t5_loop", BeginGetStats("out"),
                   [harness EXCEPT !.pc = "t5_gs2",
                                   !.nops = Test_delay(TEST_DELAY_LOOPS)])

T5_Verdict ==
    HarnessRet("t5_gs2", "gs_ret",
               Verdict(5, SequentialVerdict(harness.before, statsOut)))

\* -------------------------------------------------- Test_CAN_ErrorHandling
\* Mutant: the verdict is made on lastErrorCode.
ErrorHandlingVerdict_onLastCode(stats) ==
    IF stats.lastErrorCode = {} THEN TEST_PASS ELSE TEST_FAIL

ErrorHandlingVerdict(stats) ==
    IF stats.errorCount = 0 THEN TEST_PASS ELSE TEST_FAIL

T6_GetStats ==
    HarnessCall("t6", BeginGetStats("out"), [harness EXCEPT !.pc = "t6_gs"])

T6_Verdict ==
    HarnessRet("t6_gs", "gs_ret", Verdict(6, ErrorHandlingVerdict(statsOut)))

\* ------------------------------------------------------------ the runner
\* Mutant: a failure is tallied as a pass as well.
Test_printResult_countsBoth(t, result) ==
    IF result = TEST_PASS
    THEN [t EXCEPT !.stats.lastTestResult = result,
                   !.stats.passedTests = @ + 1, !.led.status = 1]
    ELSE [t EXCEPT !.stats.lastTestResult = result,
                   !.stats.passedTests = @ + 1,
                   !.stats.failedTests = @ + 1, !.led.error = 1]

\* Test_printResult on t = [stats, led].
Test_printResult(t, result) ==
    IF result = TEST_PASS
    THEN [t EXCEPT !.stats.lastTestResult = result,
                   !.stats.passedTests = @ + 1, !.led.status = 1]
    ELSE [t EXCEPT !.stats.lastTestResult = result,
                   !.stats.failedTests = @ + 1, !.led.error = 1]

\* Test_delay(TEST_DELAY_LOOPS) after each test, twice that after the last.
AfterTestDelay(k) ==
    IF k = NUM_TESTS THEN TEST_DELAY_LOOPS * 2 ELSE TEST_DELAY_LOOPS

\* Where CAN_runUnitTests goes on after the if-statement of test k.
AfterTest(k) == <<"t2", "t3", "t4", "t5", "t6", "final">>[k]

\* if(Test_...() == TEST_PASS) Test_printResult(TEST_PASS);
\* else Test_printResult(TEST_FAIL);
RunnerPrintResult ==
    LET t == Test_printResult([stats |-> harness.testStats, led |-> led],
                              IF harness.result = TEST_PASS
                              THEN TEST_PASS ELSE TEST_FAIL)
    IN  HarnessLocal("print",
                     [harness EXCEPT !.pc = AfterTest(harness.test),
                                     !.testStats = t.stats,
                                     !.result = NoRet,
                                     !.ran = Append(@, harness.test),
                                     !.nops = Test_delay(AfterTestDelay(
                                                           harness.test))],
                     t.led)

\* GPIO_writePin(LED1, 0U); GPIO_writePin(LED2, 0U); and the first test of
\* the loop over the passed tests.
RunnerFinal ==
    HarnessLocal("final", [harness EXCEPT !.pc = "pass_on", !.idx = 0],
                 [status |-> 0, error |-> 0])

\* GPIO_togglePin
Toggle(v) == 1 - v

\* First half of a pulse of LED1, while idx < passedTests.
ReportPassOn ==
    /\ harness.idx < harness.testStats.passedTests
    /\ HarnessLocal("pass_on",
                    [harness EXCEPT !.pc = "pass_off",
                                    !.nops = Test_delay(BLINK_DELAY)],
                    [led EXCEPT !.status = Toggle(@)])

\* Second half of the pulse, and idx++.
ReportPassOff ==
    HarnessLocal("pass_off",
                 [harness EXCEPT !.pc = "pass_on", !.idx = @ + 1,
                                 !.pulses.pass = @ + 1,
                                 !.nops = Test_delay(BLINK_DELAY)],
                 [led EXCEPT !.status = Toggle(@)])

\* The loop over the passed tests is over: pause, and idx = 0.
ReportPause ==
    /\ harness.idx >= harness.testStats.passedTests
    /\ HarnessLocal("pass_on",
                    [harness EXCEPT !.pc = "fail_on", !.idx = 0,
                                    !.nops = Test_delay(PAUSE_DELAY)],
                    led)

\* First half of a pulse of LED2, while idx < failedTests.
ReportFailOn ==
    /\ harness.idx < harness.testStats.failedTests
    /\ HarnessLocal("fail_on",
                    [harness EXCEPT !.pc = "fail_off",
                                    !.nops = Test_delay(BLINK_DELAY)],
                    [led EXCEPT !.error = Toggle(@)])

ReportFailOff ==
    HarnessLocal("fail_off",
                 [harness EXCEPT !.pc = "fail_on", !.idx = @ + 1,
                                 !.pulses.fail = @ + 1,
                                 !.nops = Test_delay(BLINK_DELAY)],
                 [led EXCEPT !.error = Toggle(@)])

\* The loop over the failed tests is over: pause, counter++, and the cycle
\* starts again (counter is written and never read; it is left out).
ReportCycleEnd ==
    /\ harness.idx >= harness.testStats.failedTests
    /\ HarnessLocal("fail_on",
                    [harness EXCEPT !.pc = "pass_on", !.idx = 0,
                                    !.pulses = [pass |-> 0, fail |-> 0],
                                    !.cycles = 1,
                                    !.nops = Test_delay(LONG_PAUSE_DELAY)],
                    led)

NextHarness ==
    \/ RunnerStart
    \/ T1_GetStats
    \/ T1_Verdict
    \/ T2_GetStatsBefore
    \/ T2_GotBefore
    \/ T2_Send
    \/ T2_Sent
    \/ T2_GetStatsAfter
    \/ T2_Verdict
    \/ T3_GetStatsBefore
    \/ T3_GotBefore
    \/ T3_Poll
    \/ T3_Polled
    \/ T3_GetStatsAfter
    \/ T3_Verdict
    \/ T4_Send
    \/ T4_Sent
    \/ T4_Poll
    \/ T4_Polled
    \/ T4_Verdict
    \/ T5_GetStatsBefore
    \/ T5_GotBefore
    \/ T5_Send
    \/ T5_Sent
    \/ T5_GetStatsAfter
    \/ T5_Verdict
    \/ T6_GetStats
    \/ T6_Verdict
    \/ RunnerPrintResult
    \/ RunnerFinal
    \/ ReportPassOn
    \/ ReportPassOff
    \/ ReportPause
    \/ ReportFailOn
    \/ ReportFailOff
    \/ ReportCycleEnd
    \/ SendBuild
    \/ SendCount
    \/ ReceiveCheck
    \/ ReceiveCopyId
    \/ ReceiveCopyDlc
    \/ ReceiveCopyData
    \/ ReceiveCopyTimestamp
    \/ ReceiveClear
    \/ ReceiveCount
    \/ GetStatsCheck
    \/ GetStatsTransmitted
    \/ GetStatsReceived
    \/ GetStatsErrors
    \/ GetStatsLastCode
    \/ \E f \in HarnessFrames : LatchFrame(f)
    \/ \E es \in HarnessErrorStatuses :
          faults.count < MaxHarnessFaults /\ FaultNotification(es)

SpecHarness == InitHarness /\ [][NextHarness]_vars

\* The harness with the code of the repository alone: no statement of it
\* writes lastRxMessage or sets messageReceived, and nothing is injected.
NextHarnessAlone ==
    \/ RunnerStart
    \/ T1_GetStats
    \/ T1_Verdict
    \/ T2_GetStatsBefore
    \/ T2_GotBefore
    \/ T2_Send
    \/ T2_Sent
    \/ T2_GetStatsAfter
    \/ T2_Verdict
    \/ T3_GetStatsBefore
    \/ T3_GotBefore
    \/ T3_Poll
    \/ T3_Polled
    \/ T3_GetStatsAfter
    \/ T3_Verdict
    \/ T4_Send
    \/ T4_Sent
    \/ T4_Poll
    \/ T4_Polled
    \/ T4_Verdict
    \/ T5_GetStatsBefore
    \/ T5_GotBefore
    \/ T5_Send
    \/ T5_Sent
    \/ T5_GetStatsAfter
    \/ T5_Verdict
    \/ T6_GetStats
    \/ T6_Verdict
    \/ RunnerPrintResult
    \/ RunnerFinal
    \/ ReportPassOn
    \/ ReportPassOff
    \/ ReportPause
    \/ ReportFailOn
    \/ ReportFailOff
    \/ ReportCycleEnd
    \/ SendBuild
    \/ SendCount
    \/ ReceiveCheck
    \/ GetStatsCheck
    \/ GetStatsTransmitted
    \/ GetStatsReceived
    \/ GetStatsErrors
    \/ GetStatsLastCode

SpecHarnessAlone == InitHarness /\ [][NextHarnessAlone]_vars

\* ------------------------------------------------------ the round trip
\* The end-to-end scenario on a fresh driver: send an 8-byte payload, poll
\* CAN_receiveMessage as Test_CAN_DataIntegrity does, read the statistics.
\* The payload is any of the harness's, the build with or without
\* CAN_USE_LOOPBACK.
RoundTripPayloads ==
    {IntegrityData, TransmitData}
        \cup {SequentialData(i) : i \in 0..(SEQ_MESSAGES - 1)}

InitRoundTrip ==
    /\ canStats = ZeroStats
    /\ lastRxMessage = ZeroFrame
    /\ messageReceived = 0
    /\ txFrame = None
    /\ \E lb \in BOOLEAN : canHw = [HwConfigured EXCEPT !.loopback = lb]
    /\ led = [status |-> 0, error |-> 0]
    /\ pc = "idle"
    /\ args = None
    /\ msg = None
    /\ statsOut = None
    /\ ret = NoRet
    /\ slotState = "empty"
    /\ call = None
    /\ faults = NoFaults
    /\ \E p \in RoundTripPayloads :
          harness = [HarnessStart EXCEPT !.pc = "rt", !.txData = p]
    /\ runs = None

RT_Send ==
    HarnessCall("rt", BeginSend(CAN_RX_MSG_ID, harness.txData, 8),
                [harness EXCEPT !.pc = "rt_tx"])

RT_Sent ==
    HarnessRet("rt_tx", "tx_ret",
               [harness EXCEPT !.pc = "rt_loop",
                               !.timeout = TEST_TIMEOUT_LOOPS])

RT_Poll ==
    /\ harness.timeout > 0
    /\ HarnessCall("rt_loop", BeginReceive, [harness EXCEPT !.pc = "rt_rx"])

RT_Polled ==
    HarnessRet("rt_rx", "rx_ret",
               IF ret = 0
               THEN [harness EXCEPT !.pc = "rt_loop", !.timeout = @ - 1,
                                    !.result = ret]
               ELSE [harness EXCEPT !.pc = "rt_stats", !.rxMsg = msg,
                                    !.result = ret])

RT_GetStats ==
    /\ harness.pc = "rt_loop" => harness.timeout = 0
    /\ \E from \in {"rt_loop", "rt_stats"} :
          HarnessCall(from, BeginGetStats("out"),
                      [harness EXCEPT !.pc = "rt_gs"])

RT_Done ==
    HarnessRet("rt_gs", "gs_ret",
               [harness EXCEPT !.pc = "rt_done", !.after = statsOut])

NextRoundTrip ==
    \/ RT_Send
    \/ RT_Sent
    \/ RT_Poll
    \/ RT_Polled
    \/ RT_GetStats
    \/ RT_Done
    \/ SendBuild
    \/ SendCount
    \/ ReceiveCheck
    \/ GetStatsCheck
    \/ GetStatsTransmitted
    \/ GetStatsReceived
    \/ GetStatsErrors
    \/ GetStatsLastCode

SpecRoundTrip == InitRoundTrip /\ [][NextRoundTrip]_vars

\* ============================================ can_communication.c, tests
\* The test runner of the driver file itself (CAN_runUnitTests, lines
\* 432-483) with CAN_testLoopback and CAN_testTransmit.  Unlike the harness
\* of can_unit_tests.c it reads and writes the driver's statics directly.
\* Both settings of CAN_USE_LOOPBACK are modelled: the loopback test is
\* compiled in only when it is 1.

\* uint32_t timeout = 100000U; of CAN_testLoopback, scaled down.
LOOPBACK_TIMEOUT == 2
\* blinkRate, 50000U and 200000U in the source, scaled down.
BLINK_FAST == 2
BLINK_SLOW == 4

\* uint8_t testData[8] of CAN_testLoopback and txData of CAN_testTransmit.
LoopbackData == <<17, 34, 51, 68, 85, 102, 119, 136>>
TestTransmitData == <<170, 187, 204, 221, 238, 255, 0, 17>>

\* The error-status words tried while the runner runs: bus-off excepted,
\* whose CAN_initModule is modelled for the CAN_USE_LOOPBACK = 0 build.
BuiltinErrorStatuses == {{}, {"TXWARN"}}

\* The runner before its first statement, in the build with
\* CAN_USE_LOOPBACK = lb.  reg is the register that holds errorCount
\* between the read and the write of canStats.errorCount++; incs is the
\* number of such increments the runner has made (history) and faults0 the
\* number of fault notifications before it cleared errorCount (history).
BuiltinStart(lb) ==
    [pc |-> "b_clear", loopback |-> lb, testsPassed |-> 0, testsFailed |-> 0,
     blinkRate |-> 0, counter |-> 0, timeout |-> 0, idx |-> 0,
     dataMatches |-> 0, reg |-> 0, incs |-> 0, faults0 |-> 0]

InitBuiltin ==
    /\ canStats = ZeroStats
    /\ lastRxMessage = ZeroFrame
    /\ messageReceived = 0
    /\ txFrame = None
    /\ led = [status |-> 0, error |-> 0]
    /\ pc = "idle"
    /\ args = None
    /\ msg = None
    /\ statsOut = None
    /\ ret = NoRet
    /\ slotState = "empty"
    /\ call = None
    /\ faults = NoFaults
    /\ runs = None
    /\ \E lb \in {0, 1} :
          /\ canHw = [HwConfigured EXCEPT !.loopback = (lb = 1)]
          /\ harness = BuiltinStart(lb)

\* Statements of the runner and of its test functions that call no driver
\* function: they may write the statistics, the flag and the indicators.
BuiltinLocal(from, h, stats, flag, l) ==
    /\ harness.pc = from
    /\ pc = "idle"
    /\ harness' = h
    /\ canStats' = stats
    /\ messageReceived' = flag
    /\ led' = l
    /\ slotState' = IF flag = 0 /\ messageReceived = 1
                    THEN "empty" ELSE slotState
    /\ UNCHANGED <<lastRxMessage, txFrame, canHw, fg, call, faults, runs>>

\* canStats.messagesTransmitted = 0U; canStats.messagesReceived = 0U;
BuiltinClearCounts ==
    BuiltinLocal("b_clear", [harness EXCEPT !.pc = "b_clear_err"],
                 [canStats EXCEPT !.messagesTransmitted = 0,
                                  !.messagesReceived = 0],
                 messageReceived, led)

\* canStats.errorCount = 0U; and #if CAN_USE_LOOPBACK
BuiltinClearErrors ==
    BuiltinLocal("b_clear_err",
                 [harness EXCEPT !.pc = IF harness.loopback = 1
                                        THEN "lb_send" ELSE "tt_clear",
                                 !.faults0 = faults.count],
                 [canStats EXCEPT !.errorCount = 0], messageReceived, led)

\* ----------------------------------------------------------- CAN_testLoopback
\* CAN_sendMessage(CAN_TX_MSG_ID, testData, 8U);
CAN_testLoopback_Send ==
    HarnessCall("lb_send", BeginSend(CAN_TX_MSG_ID, LoopbackData, 8),
                [harness EXCEPT !.pc = "lb_tx"])

CAN_testLoopback_Sent ==
    HarnessRet("lb_tx", "tx_ret",
               [harness EXCEPT !.pc = "lb_wait",
                               !.timeout = LOOPBACK_TIMEOUT])

\* while((timeout > 0U) && (messageReceived == 0U)) timeout--;
CAN_testLoopback_Wait ==
    BuiltinLocal("lb_wait",
                 IF harness.timeout > 0 /\ messageReceived = 0
                 THEN [harness EXCEPT !.timeout = @ - 1]
                 ELSE [harness EXCEPT !.pc = "lb_verify"],
                 canStats, messageReceived, led)

\* if(messageReceived && (lastRxMessage.dlc == 8U)) ... else errorCount++
CAN_testLoopback_Verify ==
    BuiltinLocal("lb_verify",
                 IF messageReceived # 0 /\ lastRxMessage.dlc = 8
                 THEN [harness EXCEPT !.pc = "lb_cmp", !.idx = 0,
                                      !.dataMatches = 1]
                 ELSE [harness EXCEPT !.pc = "lb_err_read"],
                 canStats, messageReceived, led)

\* for(idx = 0U; idx < 8U; idx++)
\*     if(lastRxMessage.data[idx] != testData[idx]) dataMatches = 0U;
\* and, after the last byte, if(dataMatches)
CAN_testLoopback_Compare ==
    LET m == IF lastRxMessage.data[harness.idx + 1]
                    # LoopbackData[harness.idx + 1]
             THEN 0 ELSE harness.dataMatches
    IN  BuiltinLocal("lb_cmp",
                     [harness EXCEPT
                         !.dataMatches = m, !.idx = @ + 1,
                         !.pc = IF harness.idx + 1 < FRAME_BYTES THEN "lb_cmp"
                                ELSE IF m # 0 THEN "lb_clear"
                                ELSE "lb_err_read"],
                     canStats, messageReceived, led)

\* messageReceived = 0U;  (test passed; dataMatches is 1 until the
\* function has returned)
CAN_testLoopback_Clear ==
    BuiltinLocal("lb_clear",
                 [harness EXCEPT !.pc = "lb_check", !.idx = 0, !.timeout = 0],
                 canStats, 0, led)

\* canStats.errorCount++; the read
CAN_testLoopback_ErrRead ==
    BuiltinLocal("lb_err_read",
                 [harness EXCEPT !.pc = "lb_err_write",
                                 !.reg = canStats.errorCount],
                 canStats, messageReceived, led)

\* canStats.errorCount++; the write
CAN_testLoopback_ErrWrite ==
    BuiltinLocal("lb_err_write",
                 [harness EXCEPT !.pc = "lb_check", !.reg = 0, !.idx = 0,
                                 !.dataMatches = 0, !.timeout = 0,
                                 !.incs = @ + 1],
                 [canStats EXCEPT !.errorCount = harness.reg + 1],
                 messageReceived, led)

\* ------------------------------------------------------------ the runner
\* if(canStats.messagesReceived > 0U && canStats.errorCount == 0U)
LoopbackPassed(stats) == stats.messagesReceived > 0 /\ stats.errorCount = 0

BuiltinLoopbackCheck ==
    BuiltinLocal("lb_check",
                 IF LoopbackPassed(canStats)
                 THEN [harness EXCEPT !.pc = "tt_clear", !.dataMatches = 0,
                                      !.testsPassed = @ + 1]
                 ELSE [harness EXCEPT !.pc = "tt_clear", !.dataMatches = 0,
                                      !.testsFailed = @ + 1],
                 canStats, messageReceived,
                 IF LoopbackPassed(canStats)
                 THEN [led EXCEPT !.status = 1] ELSE [led EXCEPT !.error = 1])

\* canStats.messagesTransmitted = 0U;
BuiltinClearTransmitted ==
    BuiltinLocal("tt_clear", [harness EXCEPT !.pc = "tt_send"],
                 [canStats EXCEPT !.messagesTransmitted = 0],
                 messageReceived, led)

\* CAN_testTransmit: CAN_sendMessage(CAN_TX_MSG_ID, txData, 8U);
CAN_testTransmit_Send ==
    HarnessCall("tt_send", BeginSend(CAN_TX_MSG_ID, TestTransmitData, 8),
                [harness EXCEPT !.pc = "tt_tx"])

CAN_testTransmit_Sent ==
    HarnessRet("tt_tx", "tx_ret", [harness EXCEPT !.pc = "tt_check"])

\* if(canStats.messagesTransmitted >= 1U)
BuiltinTransmitCheck ==
    BuiltinLocal("tt_check",
                 IF canStats.messagesTransmitted >= 1
                 THEN [harness EXCEPT !.pc = "b_rate", !.testsPassed = @ + 1]
                 ELSE [harness EXCEPT !.pc = "b_rate", !.testsFailed = @ + 1],
                 canStats, messageReceived, led)

\* Mutant: the two periods are exchanged.
BlinkRate_exchanged(testsFailed) ==
    IF testsFailed = 0 THEN BLINK_SLOW ELSE BLINK_FAST

\* (testsFailed == 0U) ? 50000U : 200000U
BlinkRate(testsFailed) == IF testsFailed = 0 THEN BLINK_FAST ELSE BLINK_SLOW

\* uint32_t blinkRate = ...; uint32_t counter = 0U;
BuiltinBlinkRate ==
    BuiltinLocal("b_rate",
                 [harness EXCEPT !.pc = "b_loop",
                                 !.blinkRate = BlinkRate(harness.testsFailed),
                                 !.counter = 0],
                 canStats, messageReceived, led)

\* One iteration of while(1): counter++; if(counter >= blinkRate)
\* { CAN_toggleLED(STATUS_LED_PIN); counter = 0U; }
BuiltinBlink ==
    IF harness.counter + 1 >= harness.blinkRate
    THEN BuiltinLocal("b_loop", [harness EXCEPT !.counter = 0],
                      canStats, messageReceived,
                      [led EXCEPT !.status = Toggle(@)])
    ELSE BuiltinLocal("b_loop", [harness EXCEPT !.counter = @ + 1],
                      canStats, messageReceived, led)

NextBuiltin ==
    \/ BuiltinClearCounts
    \/ BuiltinClearErrors
    \/ CAN_testLoopback_Send
    \/ CAN_testLoopback_Sent
    \/ CAN_testLoopback_Wait
    \/ CAN_testLoopback_Verify
    \/ CAN_testLoopback_Compare
    \/ CAN_testLoopback_Clear
    \/ CAN_testLoopback_ErrRead
    \/ CAN_testLoopback_ErrWrite
    \/ BuiltinLoopbackCheck
    \/ BuiltinClearTransmitted
    \/ CAN_testTransmit_Send
    \/ CAN_testTransmit_Sent
    \/ BuiltinTransmitCheck
    \/ BuiltinBlinkRate
    \/ BuiltinBlink
    \/ SendBuild
    \/ SendCount
    \/ \E f \in Frames : LatchFrame(f)
    \/ \E es \in BuiltinErrorStatuses :
          faults.count < MaxHarnessFaults /\ FaultNotification(es)

SpecBuiltin == InitBuiltin /\ [][NextBuiltin]_vars

\* ==================================================== can_communication.c, main
\* The application loop of main (lines 165-193), the build without
\* RUN_UNIT_TESTS: a periodic send, one poll of the receive slot in every
\* iteration, and the message-processing callback for every frame received.

\* if(counter >= 100000), scaled down.
SEND_PERIOD == 2
\* The iterations of while(1) that are followed.
MaxIterations == 5

\* #ifdef RUN_UNIT_TESTS: not defined in the build with the application loop.
RUN_UNIT_TESTS == FALSE

\* uint8_t txData[8] of the periodic send.
MainData == <<170, 187, 204, 221, 17, 34, 51, 68>>

\* main before the first iteration.  iters is the number of iterations
\* begun (history), polls the receive calls of the iteration under way
\* (history), processed the calls of CAN_processMessage (history).
MainStart ==
    [pc |-> "m_inc", counter |-> 0, rxMsg |-> None,
     iters |-> 0, polls |-> 0, processed |-> 0]

InitMain ==
    /\ canStats = ZeroStats
    /\ lastRxMessage = ZeroFrame
    /\ messageReceived = 0
    /\ txFrame = None
    /\ canHw = HwConfigured
    /\ led = [status |-> 0, error |-> 0]
    /\ pc = "idle"
    /\ args = None
    /\ msg = None
    /\ statsOut = None
    /\ ret = NoRet
    /\ slotState = "empty"
    /\ call = None
    /\ faults = NoFaults
    /\ runs = None
    /\ harness = MainStart

\* Mutant: the test is counter > 100000.
MainTick_late ==
    /\ harness.iters < MaxIterations
    /\ HarnessLocal("m_inc",
                    [harness EXCEPT !.counter = @ + 1, !.iters = @ + 1,
                                    !.polls = 0,
                                    !.pc = IF harness.counter + 1 > SEND_PERIOD
                                           THEN "m_send" ELSE "m_poll"],
                    led)

\* counter++; if(counter >= 100000)
MainTick ==
    /\ harness.iters < MaxIterations
    /\ HarnessLocal("m_inc",
                    [harness EXCEPT !.counter = @ + 1, !.iters = @ + 1,
                                    !.polls = 0,
                                    !.pc = IF harness.counter + 1 >= SEND_PERIOD
                                           THEN "m_send" ELSE "m_poll"],
                    led)

\* CAN_sendMessage(CAN_TX_MSG_ID, txData, 8);
MainSend ==
    HarnessCall("m_send", BeginSend(CAN_TX_MSG_ID, MainData, 8),
                [harness EXCEPT !.pc = "m_tx"])

\* CAN_sendMessage has returned, to the loop or to the callback.
MainSent ==
    \E from \in {"m_tx", "m_echo"} :
        HarnessRet(from, "tx_ret",
                   [harness EXCEPT !.pc = IF from = "m_tx"
                                          THEN "m_tog_tx" ELSE "m_tog_rx"])

\* CAN_toggleLED(STATUS_LED_PIN); counter = 0;
MainToggleTx ==
    HarnessLocal("m_tog_tx", [harness EXCEPT !.pc = "m_poll", !.counter = 0],
                 [led EXCEPT !.status = Toggle(@)])

\* if(CAN_receiveMessage(&rxMsg))
MainPoll ==
    HarnessCall("m_poll", BeginReceive,
                [harness EXCEPT !.pc = "m_rx", !.polls = @ + 1])

MainPolled ==
    HarnessRet("m_rx", "rx_ret",
               IF ret = 0
               THEN [harness EXCEPT !.pc = "m_inc"]
               ELSE [harness EXCEPT !.pc = "m_proc", !.rxMsg = msg])

\* Mutant: the echo is compiled in whatever the build.
CAN_processMessage_echoes(msgId, data, dlc) ==
    IF msgId = CAN_RX_MSG_ID
    THEN <<[id |-> CAN_ECHO_MSG_ID, data |-> data, dlc |-> dlc]>>
    ELSE <<>>

\* CAN_processMessage(msgId, data, dlc): the sends it makes.
CAN_processMessage(msgId, data, dlc) ==
    IF msgId = CAN_RX_MSG_ID /\ RUN_UNIT_TESTS
    THEN <<[id |-> CAN_ECHO_MSG_ID, data |-> data, dlc |-> dlc]>>
    ELSE <<>>

\* CAN_processMessage(rxMsg.id, rxMsg.data, rxMsg.dlc);
MainProcess ==
    /\ harness.pc = "m_proc"
    /\ LET out == CAN_processMessage(harness.rxMsg.id, harness.rxMsg.data,
                                     harness.rxMsg.dlc)
       IN  IF out = <<>>
           THEN HarnessLocal("m_proc",
                             [harness EXCEPT !.pc = "m_tog_rx",
                                             !.processed = @ + 1],
                             led)
           ELSE HarnessCall("m_proc",
                            BeginSend(out[1].id, out[1].data, out[1].dlc),
                            [harness EXCEPT !.pc = "m_echo",
                                            !.processed = @ + 1])

\* CAN_toggleLED(STATUS_LED_PIN); and the end of the iteration, where rxMsg
\* goes out of scope.
MainToggleRx ==
    HarnessLocal("m_tog_rx", [harness EXCEPT !.pc = "m_inc", !.rxMsg = None],
                 [led EXCEPT !.status = Toggle(@)])

NextMain ==
    \/ MainTick
    \/ MainSend
    \/ MainSent
    \/ MainToggleTx
    \/ MainPoll
    \/ MainPolled
    \/ MainProcess
    \/ MainToggleRx
    \/ SendBuild
    \/ SendCount
    \/ ReceiveCheck
    \/ ReceiveCopyId
    \/ ReceiveCopyDlc
    \/ ReceiveCopyData
    \/ ReceiveCopyTimestamp
    \/ ReceiveClear
    \/ ReceiveCount
    \/ \E f \in Frames : LatchFrame(f)
    \/ \E es \in HarnessErrorStatuses :
          faults.count < MaxHarnessFaults /\ FaultNotification(es)

SpecMain == InitMain /\ [][NextMain]_vars

\* ===================================================================== claims
Sent == canStats.messagesTransmitted
Received == canStats.messagesReceived
Errors == canStats.errorCount
\* The step is one of the foreground code (the notifications leave pc alone).
ForegroundStep == pc' # pc

\* C1: a send with length > 8 hands the transmit object a frame of length
\* exactly 8 whose payload is data[0..7], and reads the caller's buffer at no
\* index >= 8.
C1_SendClampsLength ==
    (pc \in {"tx_count", "tx_ret"} /\ args.dlc > FRAME_BYTES) =>
        /\ txFrame.len = FRAME_BYTES
        /\ \A i \in 0..(FRAME_BYTES - 1) : txFrame.data[i + 1] = args.data[i + 1]
        /\ DOMAIN txFrame.data = 1..FRAME_BYTES
        /\ \A i \in args.reads : i < FRAME_BYTES

C1_Witness ==
    /\ pc = "tx_ret" /\ args.dlc = UINT8_MAX /\ txFrame.len = FRAME_BYTES
    /\ args.data[1] = 161 /\ args.reads = 0..7

\* C2: a send with length <= 8 hands over an 8-byte frame whose bytes
\* 0..length-1 are the caller's bytes and whose bytes at index >= length are
\* zero, whatever the caller's buffer holds beyond length.
C2_SendZeroPads ==
    (pc \in {"tx_count", "tx_ret"} /\ args.dlc <= FRAME_BYTES) =>
        /\ DOMAIN txFrame.data = 1..FRAME_BYTES
        /\ txFrame.len = args.dlc
        /\ \A i \in 0..(FRAME_BYTES - 1) :
              txFrame.data[i + 1] = IF i < args.dlc THEN args.data[i + 1] ELSE 0

C2_Witness ==
    /\ pc = "tx_ret" /\ args.dlc = 3
    /\ args.data[4] # 0 /\ txFrame.data[4] = 0 /\ txFrame.data[3] = args.data[3]

\* C3: a receive call that finds the availability flag false returns false,
\* leaves every field of its output frame, the received counter and the flag
\* as they were.
C3_ReceiveEmptyStep ==
    (pc = "rx_check" /\ messageReceived = 0 /\ ForegroundStep) =>
        /\ pc' = "rx_ret" /\ ret' = 0
        /\ msg' = msg
        /\ canStats' = canStats
        /\ messageReceived' = 0
        /\ lastRxMessage' = lastRxMessage

C3_ReceiveEmptyResult ==
    (pc = "rx_ret" /\ ret = 0) =>
        /\ msg = StaleFrame
        /\ Received = call.stats0.messagesReceived

C3_ReceiveEmpty == [][C3_ReceiveEmptyStep]_vars /\ []C3_ReceiveEmptyResult

C3_Witness ==
    /\ pc = "rx_ret" /\ ret = 0 /\ msg = StaleFrame /\ messageReceived = 0
    /\ Received > 0

\* C4 (as stated): once a frame is latched, the next receive call returns
\* true with that frame, and a receive call with no latch since the previous
\* receive call began returns false.
\* call.slot0 is the slot's history when the call began: "pending"/"overrun"
\* = a frame was latched and no receive has consumed it; call.latches = 0 =
\* no frame was latched during the call.
C4_NextReceiveDelivers ==
    (pc = "rx_ret" /\ call.latches = 0) =>
        /\ call.slot0 \in {"pending", "overrun"} =>
              (ret = 1 /\ msg = lastRxMessage)
        /\ call.slot0 = "empty" => ret = 0

\* C5: sent and received never decrease; a send call raises sent by exactly 1
\* (and leaves received), a receive call that returns true raises received by
\* exactly 1 (and leaves sent), one that returns false raises neither.
C5_CountersStep == Sent' >= Sent /\ Received' >= Received

C5_CountersPerCall ==
    /\ pc = "tx_ret" =>
          /\ Sent = call.stats0.messagesTransmitted + 1
          /\ Received = call.stats0.messagesReceived
    /\ pc = "rx_ret" =>
          /\ ret \in {0, 1}
          /\ Received = call.stats0.messagesReceived + ret
          /\ Sent = call.stats0.messagesTransmitted

C6_DriverNeverResets ==
    [][/\ Sent' >= Sent /\ Received' >= Received /\ Errors' >= Errors
       /\ (Sent > 0 => Sent' > 0)
       /\ (Received > 0 => Received' > 0)
       /\ (Errors > 0 => Errors' > 0)]_vars

\* Reached by a bus-off notification (which re-initialises the module) taken
\* when all three counters are already non-zero.
C6_Witness ==
    /\ "BUSOFF" \in canStats.lastErrorCode /\ Errors = 2
    /\ Sent > 0 /\ Received > 0 /\ canHw = HwConfigured

\* C7 (as stated): in every reachable state the availability flag is true if
\* and only if some frame has been latched and not yet consumed by a receive
\* call (consumption being complete when receive clears the flag).
C7_FlagIffUnconsumed ==
    (messageReceived = 1) <=> (slotState \in {"pending", "overrun", "copied"})

\* C8 (as stated): when frame B was latched over the unconsumed frame A, the
\* next receive returns true with B and raises received by 1 only, and the
\* overwrite itself leaves errors alone.
C8_OverwriteDeliversLast ==
    (pc = "rx_ret" /\ call.slot0 = "overrun" /\ call.latches = 0) =>
        /\ ret = 1 /\ msg = lastRxMessage
        /\ Received = call.stats0.messagesReceived + 1

\* C9: getStatistics with a null destination returns 0 and leaves sent,
\* received, errors, lastErrorCode, the receive slot and its flag unchanged.
C9_NullStep ==
    (pc = "gs_check" /\ args.stats = "null" /\ ForegroundStep) =>
        /\ pc' = "gs_ret" /\ ret' = 0
        /\ UNCHANGED <<canStats, lastRxMessage, messageReceived, slotState>>

C9_NullResult ==
    (pc = "gs_ret" /\ args.stats = "null") => (ret = 0 /\ statsOut = None)

C9_GetStatsNull == [][C9_NullStep]_vars /\ []C9_NullResult

C9_Witness ==
    /\ pc = "gs_ret" /\ args.stats = "null" /\ ret = 0
    /\ canStats = call.stats0 /\ Errors > 0 /\ Sent > 0 /\ messageReceived = 1

\* C10: getStatistics with a non-null destination, not preempted by a
\* notification, returns 1 with all four fields of the destination equal to
\* the current statistics; no statement of it changes driver state; and it
\* returns 0 only for a null destination.
GetStatsPcs == {"gs_check", "gs_tx", "gs_rx", "gs_err", "gs_code"}

C10_Result ==
    pc = "gs_ret" =>
        /\ (ret = 0) <=> (args.stats = "null")
        /\ (args.stats = "out" /\ call.latches = 0 /\ canStats = call.stats0) =>
              (ret = 1 /\ statsOut = canStats)

C10_Step ==
    (pc \in GetStatsPcs /\ ForegroundStep) =>
        UNCHANGED <<canStats, lastRxMessage, messageReceived, canHw, led>>

C10_GetStats == [][C10_Step]_vars /\ []C10_Result

C10_Witness ==
    /\ pc = "gs_ret" /\ args.stats = "out" /\ ret = 1
    /\ call.latches = 0 /\ canStats = call.stats0
    /\ statsOut = canStats /\ Sent = 1 /\ Received = 2 /\ Errors = 1
    /\ canStats.lastErrorCode = {"TXWARN"}

\* ------------------------------------------------- claims C11 .. C20
\* A step that is a fault notification (a call of CAN_errorHandler).
FaultStep == faults'.count # faults.count

\* The step on which CAN_getStats returns its snapshot.
GetStatsReturns == pc = "gs_code" /\ ForegroundStep

\* C11 (as stated): when CAN_getStats returns a snapshot, preempted by any
\* number of fault notifications, each counter of the snapshot is at most the
\* counter at the moment of the return and less than it by at most 1.
C11_LagAtMostOneStep ==
    GetStatsReturns =>
        /\ statsOut'.messagesTransmitted <= Sent'
        /\ Sent' - statsOut'.messagesTransmitted <= 1
        /\ statsOut'.messagesReceived <= Received'
        /\ Received' - statsOut'.messagesReceived <= 1
        /\ statsOut'.errorCount <= Errors'
        /\ Errors' - statsOut'.errorCount <= 1

C11_SnapshotLagAtMostOne == [][C11_LagAtMostOneStep]_vars

\* C11 (amended): each counter of the snapshot is at most the counter at the
\* moment of the return; sent and received equal it, and errors is less than
\* it by at most the number of fault notifications that preempted the call.
C11_LagStep ==
    GetStatsReturns =>
        /\ statsOut'.messagesTransmitted = Sent'
        /\ statsOut'.messagesReceived = Received'
        /\ statsOut'.errorCount <= Errors'
        /\ Errors' - statsOut'.errorCount <= Errors' - call.stats0.errorCount

C11_SnapshotLag == [][C11_LagStep]_vars

\* About to return, two fault notifications after errorCount was copied: the
\* snapshot is two behind.
C11_Witness ==
    /\ pc = "gs_code" /\ args.stats = "out"
    /\ call.stats0.errorCount = 0 /\ statsOut.errorCount = 0 /\ Errors = 2

\* C12: every fault notification, whatever its status word, adds exactly 1
\* to errors and makes lastErrorCode that status word, so that errors is the
\* number of notifications so far and lastErrorCode the latest status word.
C12_CountStep == FaultStep => Errors' = Errors + 1

C12_CountAndCode ==
    /\ Errors = faults.count
    /\ canStats.lastErrorCode = faults.last

C12_FaultRecorded == [][C12_CountStep]_vars /\ []C12_CountAndCode

\* A warning after a bus-off: the code is the warning alone.
C12_Witness ==
    /\ faults.count = 2 /\ faults.last = {"TXWARN"}
    /\ canStats.lastErrorCode = {"TXWARN"} /\ faults.inits = 0

\* C13: a fault notification whose status word has the bus-off bit, alone or
\* with other bits, calls CAN_initModule exactly once before the handler
\* returns, and changes neither sent nor received.
C13_BusOffStep ==
    (FaultStep /\ "BUSOFF" \in faults'.last) =>
        /\ faults'.inits = 1
        /\ Sent' = Sent /\ Received' = Received

C13_BusOffReinit == [][C13_BusOffStep]_vars

C13_Witness ==
    /\ faults.last = {"RXERRPASSED", "BUSOFF"} /\ faults.inits = 1
    /\ Sent > 0 /\ Received > 0

\* C14: a fault notification without the bus-off bit does not call
\* CAN_initModule and leaves the module configuration alone; no step other
\* than a bus-off notification touches the configuration.
C14_NoReinitStep ==
    /\ (FaultStep /\ "BUSOFF" \notin faults'.last) =>
          (faults'.inits = 0 /\ canHw' = canHw)
    /\ ~FaultStep => canHw' = canHw

C14_NoReinit == [][C14_NoReinitStep]_vars

C14_Witness ==
    /\ faults.last = {"TXWARN"} /\ faults.inits = 0 /\ Errors = 1
    /\ canHw = HwConfigured

\* C16: CAN_initModule is idempotent: from the current driver state with the
\* module as it is, as at reset, or bus-off, one call and two calls leave the
\* same configuration (TX object at CAN_TX_MSG_ID, RX object at CAN_RX_MSG_ID,
\* module and notifications enabled), and a call changes neither the
\* statistics nor the receive slot nor its flag; the module is so configured
\* in every reachable state.
C16_InitIdempotent ==
    /\ canHw.txObj.id = CAN_TX_MSG_ID /\ canHw.rxObj.id = CAN_RX_MSG_ID
    /\ canHw.enabled /\ canHw.interrupts
    /\ \A hw0 \in {canHw, HwReset, HwBusOff(canHw)} :
          LET d == [hw |-> hw0, stats |-> canStats, slot |-> lastRxMessage,
                    flag |-> messageReceived, inits |-> 0]
              one == CAN_initModule(d)
              two == CAN_initModule(one)
          IN  /\ one.hw = canHw /\ two.hw = one.hw
              /\ one.stats = d.stats /\ two.stats = d.stats
              /\ one.slot = d.slot /\ two.slot = d.slot
              /\ one.flag = d.flag /\ two.flag = d.flag

\* After a bus-off notification, with a frame pending and counters non-zero.
C16_Witness ==
    /\ "BUSOFF" \in faults.last /\ faults.inits = 1
    /\ canHw = HwConfigured /\ messageReceived = 1
    /\ Sent > 0 /\ Errors = 2

\* C15 (as stated): every fault notification turns the fault indicator on
\* and no later action of the program turns it off: in every state after a
\* fault notification the fault indicator is on.
C15_IndicatorStaysOn == faults.count > 0 => led.error = 1

\* The statements of the harness that write or toggle LED2, the pin of the
\* fault indicator: Test_initStatusLEDs, the final GPIO_writePin, and the
\* two toggles of the loop over the failed tests.
Led2Writers == {"start", "final", "fail_on", "fail_off"}

\* C15 (amended): every fault notification turns the fault indicator on, and
\* no driver operation and no notification turns it off; it goes off only
\* by the harness's own writes of LED2 (Test_initStatusLEDs, the write before
\* the reporting loop, the toggles of the loop over the failed tests).
C15_IndicatorStep ==
    /\ FaultStep => led'.error = 1
    /\ (led.error = 1 /\ led'.error = 0) =>
          (harness.pc \in Led2Writers /\ harness'.pc # harness.pc)

C15_IndicatorOnUntilHarness == [][C15_IndicatorStep]_vars

\* A fault during the tests has lit the indicator, and the harness is in its
\* reporting loop with the indicator off again.
C15_Witness ==
    /\ faults.count > 0 /\ led.error = 0
    /\ harness.pc = "pass_on" /\ harness.testStats.failedTests > 0

\* What of a run the claim says fault notifications never show in: all of
\* the driver state but errorCount, lastErrorCode and the error LED.
LowOf(d) ==
    [sent |-> d.stats.messagesTransmitted,
     received |-> d.stats.messagesReceived,
     slot |-> d.slot, flag |-> d.flag, hw |-> d.hw, statusLed |-> d.led.status,
     pc |-> d.pc, args |-> d.args, msg |-> d.msg, ret |-> d.ret,
     txFrame |-> d.txFrame]

\* C17: of two runs given the same send and receive calls and the same
\* latched frames, one with fault notifications (bus-off among them) and one
\* without, every receive returns the same value and the same frame, and
\* sent and received are equal, at every moment; the runs differ at most in
\* errorCount, lastErrorCode and the error LED.
C17_FaultsDoNotShow == LowOf(runs.p) = LowOf(runs.q)

\* A receive has delivered a frame in both runs after a bus-off and a
\* warning in the first.
C17_Witness ==
    /\ runs.p.pc = "rx_ret" /\ runs.p.ret = 1 /\ runs.q.ret = 1
    /\ runs.p.stats.errorCount = 2 /\ runs.q.stats.errorCount = 0
    /\ runs.p.led.error = 1 /\ runs.q.led.error = 0
    /\ runs.p.stats.messagesTransmitted > 0

\* C18 (as stated): on a fresh driver with zero statistics and no fault,
\* send of an 8-byte payload P with length 8 followed by polling receive
\* within the retry budget ends with a receive that returned true with
\* length 8 and payload P, and statistics sent = 1, received = 1, errors = 0.
C18_RoundTrip ==
    harness.pc = "rt_done" =>
        /\ harness.result = 1
        /\ harness.rxMsg # None
        /\ harness.rxMsg.dlc = 8 /\ harness.rxMsg.data = harness.txData
        /\ harness.after.messagesTransmitted = 1
        /\ harness.after.messagesReceived = 1
        /\ harness.after.errorCount = 0

\* C19: the harness runs the six tests in their fixed order, each once; each
\* verdict adds exactly 1 to exactly one of passedTests and failedTests and
\* nothing else changes them; passedTests + failedTests is the number of
\* tests completed at every point, and 6 throughout the reporting loop.
Passed == harness.testStats.passedTests
Failed == harness.testStats.failedTests

C19_TallyStep ==
    IF harness'.ran # harness.ran
    THEN /\ harness'.ran = Append(harness.ran, Len(harness.ran) + 1)
         /\ \/ Passed' = Passed + 1 /\ Failed' = Failed
            \/ Passed' = Passed /\ Failed' = Failed + 1
    ELSE Passed' = Passed /\ Failed' = Failed

C19_TallyState ==
    /\ Len(harness.ran) <= NUM_TESTS
    /\ \A i \in 1..Len(harness.ran) : harness.ran[i] = i
    /\ Passed + Failed = Len(harness.ran)
    /\ harness.pc = "print" => harness.test = Len(harness.ran) + 1
    /\ harness.pc \in ReportPcs =>
          (Len(harness.ran) = NUM_TESTS /\ Passed + Failed = NUM_TESTS)

C19_Tally == [][C19_TallyStep]_vars /\ []C19_TallyState

\* In the reporting loop after three passes and three failures.
C19_Witness ==
    /\ harness.pc = "fail_off" /\ Passed = 3 /\ Failed = 3
    /\ harness.cycles = 1

\* C20 (as stated): with no fault notification, the six tests end with
\* failedTests = 0 and passedTests = 6, and every reporting cycle pulses the
\* pass indicator six times and the fail indicator not at all.
C20_AllPass ==
    /\ (harness.pc \in ReportPcs /\ faults.count = 0) =>
          (Failed = 0 /\ Passed = NUM_TESTS)
    /\ (harness.pc = "fail_on" /\ harness.idx >= Failed
           /\ faults.count = 0) =>
          (harness.pulses.pass = NUM_TESTS /\ harness.pulses.fail = 0)
\* A fault notification has come while the harness was in its reporting loop.
FaultWhileReporting == faults.reporting

\* C21 (as stated): once in the reporting loop the harness stays in it and
\* calls nothing of the driver, the tally and the list of tests run do not
\* change, every pulse of either indicator is on-then-off, the pause after
\* the pass pulses comes after exactly passedTests of them and the longer
\* pause after exactly failedTests pulses of the fail indicator.
C21_CycleStep ==
    harness.pc \in ReportPcs =>
        /\ harness'.pc \in ReportPcs
        /\ pc' = "idle"
        /\ harness'.testStats = harness.testStats
        /\ harness'.ran = harness.ran
        /\ (harness.pc = "pass_on" /\ harness'.pc = "pass_off") =>
               (led'.status = 1 /\ harness.pulses.pass < Passed)
        /\ (harness.pc = "pass_off" /\ harness'.pc = "pass_on") =>
               led'.status = 0
        /\ (harness.pc = "pass_on" /\ harness'.pc = "fail_on") =>
               (harness.pulses.pass = Passed /\ harness.pulses.fail = 0)
        /\ (harness.pc = "fail_on" /\ harness'.pc = "fail_off") =>
               (led'.error = 1 /\ harness.pulses.fail < Failed)
        /\ (harness.pc = "fail_off" /\ harness'.pc = "fail_on") =>
               led'.error = 0
        /\ (harness.pc = "fail_on" /\ harness'.pc = "pass_on") =>
               (harness.pulses.pass = Passed /\ harness.pulses.fail = Failed)

C21_ReportingCycle == [][C21_CycleStep]_vars

\* The same without the polarity of the pulses of LED2.
C21_CycleCountsStep ==
    harness.pc \in ReportPcs =>
        /\ harness'.pc \in ReportPcs
        /\ pc' = "idle"
        /\ harness'.testStats = harness.testStats
        /\ harness'.ran = harness.ran
        /\ (harness.pc = "pass_on" /\ harness'.pc = "pass_off") =>
               (led'.status = 1 /\ harness.pulses.pass < Passed)
        /\ (harness.pc = "pass_off" /\ harness'.pc = "pass_on") =>
               led'.status = 0
        /\ (harness.pc = "pass_on" /\ harness'.pc = "fail_on") =>
               (harness.pulses.pass = Passed /\ harness.pulses.fail = 0)
        /\ (harness.pc = "fail_on" /\ harness'.pc = "fail_off") =>
               harness.pulses.fail < Failed
        /\ (harness.pc = "fail_on" /\ harness'.pc = "pass_on") =>
               (harness.pulses.pass = Passed /\ harness.pulses.fail = Failed)

C21_CycleCounts == [][C21_CycleCountsStep]_vars

\* C23 (as stated): after a fault notification that came while the harness
\* was in its reporting loop, the fault indicator (LED2) is on in every
\* state, whatever the tally.
C23_FaultIndicatorLatched == FaultWhileReporting => led.error = 1

\* The same for the tallies with no failure: the loop never writes LED2.
C23_LatchedWhenNoFailure ==
    (FaultWhileReporting /\ Failed = 0) => led.error = 1
\* C22: the runner of the driver file never leaves its final loop; the
\* period there is the fast one if and only if testsFailed is 0 and the slow
\* one otherwise, it is set on entry and never changes, and the status
\* indicator is toggled at exactly every blinkRate-th iteration and by
\* nothing else.
C22_BlinkStep ==
    harness.pc = "b_loop" =>
        /\ harness'.pc = "b_loop"
        /\ harness'.blinkRate = harness.blinkRate
        /\ harness'.testsFailed = harness.testsFailed
        /\ IF harness' # harness
           THEN IF harness.counter + 1 = harness.blinkRate
                THEN harness'.counter = 0 /\ led'.status # led.status
                ELSE /\ harness'.counter = harness.counter + 1
                     /\ led'.status = led.status
           ELSE led'.status = led.status

C22_BlinkState ==
    harness.pc = "b_loop" =>
        /\ harness.testsFailed = 0 <=> harness.blinkRate = BLINK_FAST
        /\ harness.testsFailed # 0 <=> harness.blinkRate = BLINK_SLOW
        /\ harness.counter < harness.blinkRate

C22_BlinkPeriod == [][C22_BlinkStep]_vars /\ []C22_BlinkState

\* The loopback test has failed and the indicator has been toggled once,
\* a full slow period after the loop was entered; the next toggle is due.
C22_Witness ==
    /\ harness.pc = "b_loop" /\ harness.testsFailed = 1
    /\ harness.blinkRate = BLINK_SLOW
    /\ harness.counter = BLINK_SLOW - 1 /\ led.status = 1
\* C24: Test_CAN_ReceiveMessage polls only while budget is left, at most
\* TEST_TIMEOUT_LOOPS times, and stops at the first poll that returns a
\* frame; it returns PASS if and only if a poll returned a frame and that
\* frame's dlc is in 1..8, and FAIL otherwise, also when a frame is latched
\* after the last poll.
C24_ReceiveStep ==
    /\ (harness.pc = "t3_loop" /\ harness'.pc = "t3_rx") =>
           (harness.timeout \in 1..TEST_TIMEOUT_LOOPS /\ harness.rxMsg = None)
    /\ (harness.pc = "t3_rx" /\ harness'.pc = "t3_loop") =>
           /\ ret = 0
           /\ harness'.timeout = harness.timeout - 1
           /\ harness'.rxMsg = None
    /\ (harness.pc = "t3_rx" /\ harness'.pc = "t3_after") =>
           (ret = 1 /\ harness'.rxMsg = msg /\ harness'.timeout > 0)
    /\ (harness.pc = "t3_loop" /\ harness'.pc = "t3_gs2") =>
           (harness.timeout = 0 /\ harness.rxMsg = None)
    /\ (harness.pc = "t3_gs2" /\ harness'.pc = "print") =>
           (harness'.result = TEST_PASS
               <=> (harness.rxMsg # None /\ harness.rxMsg.dlc \in 1..8))

C24_ReceiveTest == [][C24_ReceiveStep]_vars

\* The test has returned FAIL on an exhausted budget and a frame that was
\* latched after its last poll sits in the slot.
C24_Witness ==
    /\ harness.pc = "print" /\ harness.test = 3
    /\ harness.result = TEST_FAIL
    /\ messageReceived = 1 /\ lastRxMessage = FrameP
    /\ canStats.messagesReceived = 0
\* C25, the verdict alone: Test_CAN_DataIntegrity returns PASS if and only
\* if a poll returned a frame within the budget, with dlc 8 and the eight
\* bytes of the pattern the test sent.
C25_VerdictStep ==
    (harness.test # 4 /\ harness'.test = 4 /\ harness'.pc = "print") =>
        (harness'.result = TEST_PASS
            <=> /\ harness.rxMsg # None
                /\ harness.rxMsg.dlc = 8
                /\ harness.rxMsg.data = harness.txData)

C25_Verdict == [][C25_VerdictStep]_vars

\* C25 (as stated): the verdict is as above, and the frame that gives PASS
\* was not already latched in the slot when the test's own send began.
C25_OwnFrameStep ==
    /\ C25_VerdictStep
    /\ (harness.test # 4 /\ harness'.test = 4 /\ harness'.pc = "print"
           /\ harness'.result = TEST_PASS) => ~harness.stale

C25_DataIntegrity == [][C25_OwnFrameStep]_vars
\* The identifier under which the module transmits a frame handed to one of
\* its message objects: the one the object was set up with.
BusIdentifier(hw, frame) ==
    IF frame.obj = hw.txObj.obj THEN hw.txObj.id ELSE hw.rxObj.id

\* C26 (as stated): the frame a call of CAN_sendMessage has handed to the
\* transmit object goes out under the identifier the call was given.
C26_SendCarriesId ==
    (pc \in {"tx_count", "tx_ret"} /\ txFrame # None) =>
        BusIdentifier(canHw, txFrame) = args.id
\* C27: in the six-test harness errorCount and lastErrorCode change in fault
\* notifications only, whatever the tests find; Test_CAN_ErrorHandling reads
\* as errorCount the number of fault notifications since boot, returns PASS
\* if and only if that number is 0, and sends nothing.
C27_ErrorHandlingStep ==
    /\ ~FaultStep =>
           /\ canStats'.errorCount = canStats.errorCount
           /\ canStats'.lastErrorCode = canStats.lastErrorCode
    /\ FaultStep => harness' = harness
    /\ (harness.pc = "t6_gs" /\ pc = "gs_err" /\ pc' = "gs_code") =>
           statsOut'.errorCount = faults.count
    /\ (harness.pc = "t6_gs" /\ pc = "gs_code") =>
           statsOut'.errorCount = statsOut.errorCount
    /\ (harness.pc = "t6_gs" /\ harness'.pc = "print") =>
           (harness'.result = TEST_PASS <=> statsOut.errorCount = 0)
    /\ harness.pc \in {"t6", "t6_gs"} =>
           /\ canStats'.messagesTransmitted = canStats.messagesTransmitted
           /\ txFrame' = None

C27_ErrorHandling == [][C27_ErrorHandlingStep]_vars

\* Tests 3 and 4 have timed out, the Error Handling test has returned PASS,
\* and a fault notification has come after its read of errorCount.
C27_Witness ==
    /\ harness.pc = "print" /\ harness.test = 6
    /\ harness.result = TEST_PASS
    /\ Failed = 2 /\ canStats.messagesReceived = 0
    /\ faults.count = 1
\* C28 (as stated): no step of CAN_sendMessage, CAN_receiveMessage or
\* CAN_getStats changes a field of the statistics record, the latched frame
\* or the availability flag; they change in the notifications only.
C28_ForegroundWritesNothing ==
    ForegroundStep =>
        /\ canStats' = canStats
        /\ lastRxMessage' = lastRxMessage
        /\ messageReceived' = messageReceived

C28_SingleWriter == [][C28_ForegroundWritesNothing]_vars

\* What does hold of the foreground: it never writes the latched frame,
\* errorCount or lastErrorCode, and never sets the flag.
C28_ForegroundLeavesAlone ==
    ForegroundStep =>
        /\ lastRxMessage' = lastRxMessage
        /\ canStats'.errorCount = canStats.errorCount
        /\ canStats'.lastErrorCode = canStats.lastErrorCode
        /\ messageReceived' # messageReceived => messageReceived' = 0

C28_ForegroundNarrow == [][C28_ForegroundLeavesAlone]_vars
\* The statements of CAN_runUnitTests before its reporting loop, numbered in
\* program order; the Test_printResult after test k has the number just
\* before that of the statement that follows it, and a polling or sending
\* loop has one number.
StageOrder ==
    [start |-> 1, t1 |-> 2, t1_gs |-> 3,
     t2 |-> 5, t2_gs1 |-> 6, t2_send |-> 7, t2_tx |-> 8, t2_after |-> 9,
     t2_gs2 |-> 10,
     t3 |-> 12, t3_gs1 |-> 13, t3_loop |-> 14, t3_rx |-> 14, t3_after |-> 15,
     t3_gs2 |-> 16,
     t4 |-> 18, t4_tx |-> 19, t4_loop |-> 20, t4_rx |-> 20, t4_check |-> 21,
     t5 |-> 23, t5_gs1 |-> 24, t5_loop |-> 25, t5_tx |-> 25, t5_gs2 |-> 26,
     t6 |-> 28, t6_gs |-> 29,
     final |-> 31]
LastStage == StageOrder.final

Stage(h) ==
    IF h.pc = "print" THEN StageOrder[AfterTest(h.test)] - 1
    ELSE StageOrder[h.pc]

\* Statements of StageOrder still to be left.
StagesLeft(h) ==
    IF h.pc \in ReportPcs THEN 0 ELSE LastStage + 1 - Stage(h)

\* Calls and returns still to be made in the loop the harness is in, if its
\* budget is used up to the end.
LoopLeft(h) ==
    CASE h.pc \in {"t3_loop", "t4_loop"} -> 2 * h.timeout
      [] h.pc \in {"t3_rx", "t4_rx"} -> 2 * h.timeout - 1
      [] h.pc = "t5_loop" -> 2 * (SEQ_MESSAGES - h.idx)
      [] h.pc = "t5_tx" -> 2 * (SEQ_MESSAGES - h.idx) - 1
      [] OTHER -> 0

\* Statements the driver call under way has still to execute, at most.
DrvLeft(p, a) ==
    CASE p = "rx_data" -> FRAME_BYTES - a.idx + 3
      [] p = "tx_build" -> 2
      [] p = "tx_count" -> 1
      [] p = "rx_check" -> FRAME_BYTES + 6
      [] p = "rx_id" -> FRAME_BYTES + 5
      [] p = "rx_dlc" -> FRAME_BYTES + 4
      [] p = "rx_ts" -> 3
      [] p = "rx_clear" -> 2
      [] p = "rx_count" -> 1
      [] p = "gs_check" -> 5
      [] p = "gs_tx" -> 4
      [] p = "gs_rx" -> 3
      [] p = "gs_err" -> 2
      [] p = "gs_code" -> 1
      [] OTHER -> 0

LoopWeight ==
    2 * (IF TEST_TIMEOUT_LOOPS > SEQ_MESSAGES
         THEN TEST_TIMEOUT_LOOPS ELSE SEQ_MESSAGES) + 1
DrvWeight == FRAME_BYTES + 8

\* A bound on the foreground steps left before the reporting loop.
Rank ==
    (StagesLeft(harness) * LoopWeight + LoopLeft(harness)) * DrvWeight
        + DrvLeft(pc, args)

\* The iteration count of the Test_delay that a step from h to h2 of the
\* harness ends with; -1 if it ends with none.
DelayOf(h, h2) ==
    CASE h.pc = "start" -> STARTUP_DELAY
      [] h.pc = "print" ->
            IF h.test = NUM_TESTS THEN 2 * TEST_DELAY_LOOPS
            ELSE TEST_DELAY_LOOPS
      [] h.pc \in {"t2_tx", "t4_tx"} -> TEST_DELAY_LOOPS
      [] h.pc = "t5_tx" -> TEST_DELAY_LOOPS \div 5
      [] h.pc = "t5_loop" /\ h2.pc = "t5_gs2" -> TEST_DELAY_LOOPS
      [] h.pc = "pass_on" /\ h2.pc = "pass_off" -> BLINK_DELAY
      [] h.pc = "pass_off" -> BLINK_DELAY
      [] h.pc = "pass_on" /\ h2.pc = "fail_on" -> PAUSE_DELAY
      [] h.pc = "fail_on" /\ h2.pc = "fail_off" -> BLINK_DELAY
      [] h.pc = "fail_off" -> BLINK_DELAY
      [] h.pc = "fail_on" /\ h2.pc = "pass_on" -> LONG_PAUSE_DELAY
      [] OTHER -> -1

\* C29: before the reporting loop every step of the foreground (harness or
\* driver call) lowers a bound on the steps left, and every other step is a
\* notification, which leaves that bound as it is, whatever frames and
\* faults arrive; a polling loop
\* starts with TEST_TIMEOUT_LOOPS, polls only while budget is left, uses
\* up 1 per poll that returns 0, and is left on the first poll that returns
\* 1 or at budget 0; every Test_delay runs its iteration count and returns.
\* (a step of the foreground is one that moves the harness or the driver call
\* it is in)
HarnessMoves == pc' # pc \/ args' # args \/ harness' # harness

C29_WaitStep ==
    IF HarnessMoves
    THEN /\ faults' = faults /\ lastRxMessage' = lastRxMessage
         /\ ~Reporting => Rank' < Rank
         /\ harness' # harness =>
              /\ (harness.pc \in {"t3_gs1", "t4_tx"}
                     /\ harness'.pc \in {"t3_loop", "t4_loop"}) =>
                     harness'.timeout = TEST_TIMEOUT_LOOPS
              /\ (harness.pc \in {"t3_loop", "t4_loop"}
                     /\ harness'.pc \in {"t3_rx", "t4_rx"}) =>
                     harness.timeout > 0
              /\ (harness.pc \in {"t3_rx", "t4_rx"}
                     /\ harness'.pc \in {"t3_loop", "t4_loop"}) =>
                     (ret = 0 /\ harness'.timeout = harness.timeout - 1)
              /\ (harness.pc \in {"t3_rx", "t4_rx"}
                     /\ harness'.pc \in {"t3_after", "t4_check"}) => ret = 1
              /\ (harness.pc \in {"t3_loop", "t4_loop"}
                     /\ harness'.pc \in {"t3_gs2", "print"}) =>
                     (harness.timeout = 0 /\ harness.rxMsg = None)
              /\ DelayOf(harness, harness') # -1 =>
                     harness'.nops = DelayOf(harness, harness')
    ELSE faults' # faults \/ lastRxMessage' # lastRxMessage
            \/ messageReceived' # messageReceived \/ slotState' # slotState
            \/ call' # call

C29_WaitState ==
    Rank \in 0..((LastStage + 1) * LoopWeight * DrvWeight)

C29_BoundedWaits == [][C29_WaitStep]_vars /\ []C29_WaitState

\* Until the reporting loop the foreground always has a next step.
C29_NeverStuck == ~Reporting => ENABLED (NextHarness /\ HarnessMoves)

\* The reporting loop has been entered after both polling loops ran out of
\* budget and the module went bus-off.
C29_Witness ==
    /\ harness.pc = "pass_on" /\ harness.cycles = 0
    /\ Len(harness.ran) = NUM_TESTS
    /\ canStats.messagesReceived = 0
    /\ faults.last = {"BUSOFF"}
    /\ Passed = 3 /\ Failed = 3
\* C30: a frame a successful receive returns is one latched frame, whole:
\* id, length, the 8 payload bytes and timestamp of the same frame, also
\* when a frame is latched while the receive is copying the slot.
\* (CAN_receiveMessage copies field by field with interrupts enabled, lines
\* 312-318; a frame latched between two of the copies leaves the caller with
\* fields of two frames.)
C30_NeverTorn ==
    (pc = "rx_ret" /\ ret = 1) => msg \in Frames

\* What the code keeps: every field of the returned frame is that field of
\* some latched frame, and the frame is whole when no frame was latched
\* during the call.
C30_FieldsOfLatched ==
    (pc = "rx_ret" /\ ret = 1) =>
        /\ \E f \in Frames : msg.id = f.id
        /\ \E f \in Frames : msg.dlc = f.dlc
        /\ \E f \in Frames : msg.timestamp = f.timestamp
        /\ \A i \in 1..FRAME_BYTES : \E f \in Frames : msg.data[i] = f.data[i]
        /\ call.latches = 0 => msg \in Frames

\* Fault notifications since the runner cleared errorCount (line 440).
FaultsSinceClear == faults.count - harness.faults0

\* C31: no increment of errors is lost: from the runner's clear of
\* errorCount on, errors is the number of increments the foreground test code
\* has made plus the number of fault notifications, also when a notification
\* preempts the foreground's errorCount++ between its read and its write.
\* (canStats.errorCount++ of lines 523 and 528 is a read and a write of a
\* 32-bit static with the notification enabled; a notification between the
\* two is overwritten.)
C31_NoLostIncrement ==
    harness.pc \notin {"b_clear", "b_clear_err"} =>
        Errors = harness.incs + FaultsSinceClear

\* What the code keeps: errors is never more than that sum and never less
\* than the foreground's own increments, and the sum is exact unless a
\* notification came between the read and the write.
C31_LossStep ==
    /\ (harness.pc = "lb_err_write" /\ harness'.pc = "lb_check") =>
           /\ Errors' = harness.reg + 1
           /\ (harness.reg = Errors /\ Errors = harness.incs + FaultsSinceClear)
                  => Errors' = harness'.incs + FaultsSinceClear'
    /\ (harness.pc \notin {"b_clear", "b_clear_err", "lb_err_write"}
           /\ Errors = harness.incs + FaultsSinceClear)
          => Errors' = harness'.incs + FaultsSinceClear'

C31_LossState ==
    harness.pc \notin {"b_clear", "b_clear_err"} =>
        /\ Errors <= harness.incs + FaultsSinceClear
        /\ Errors >= harness.incs

C31_LossOnlyInWindow == [][C31_LossStep]_vars /\ []C31_LossState

\* CAN_testLoopback has returned through its "test passed" branch, line 519:
\* a frame of length 8 with the sent pattern was latched within the timeout.
LoopbackVerified == harness.pc = "lb_check" /\ harness.dataMatches = 1

\* C32: in the loopback build of the driver file's runner, when the frame
\* CAN_testLoopback sent is latched back within the timeout with length 8 and
\* the sent payload and no fault has occurred, the runner counts the loopback
\* test as passed: testsPassed goes up by 1 and testsFailed stays.
\* (CAN_testLoopback reads the slot itself and never calls
\* CAN_receiveMessage, so messagesReceived, cleared at line 439, is 0 at the
\* test of line 445.)
C32_CountStep ==
    (LoopbackVerified /\ faults.count = 0 /\ harness'.pc = "tt_clear") =>
        /\ harness'.testsPassed = harness.testsPassed + 1
        /\ harness'.testsFailed = harness.testsFailed

C32_LoopbackCounted == [][C32_CountStep]_vars

\* What the code does: received is 0 throughout the loopback test, so the
\* runner counts the test as failed and sets the error indicator whatever was
\* latched.
C32_FailStep ==
    (harness.pc = "lb_check" /\ harness'.pc = "tt_clear") =>
        /\ harness'.testsPassed = harness.testsPassed
        /\ harness'.testsFailed = harness.testsFailed + 1
        /\ led'.error = 1

C32_FailState ==
    harness.pc \in {"lb_send", "lb_tx", "lb_wait", "lb_verify", "lb_cmp",
                    "lb_clear", "lb_err_read", "lb_err_write", "lb_check"}
        => Received = 0

C32_LoopbackAlwaysFails == [][C32_FailStep]_vars /\ []C32_FailState

\* C33: in the application loop exactly one send is made per SEND_PERIOD
\* iterations (at every iteration boundary sent is the number of iterations
\* begun divided by the period, and a send starts only with the counter at
\* the period); receive is called once in every iteration; a receive that
\* returns 1 hands its frame to the callback, which is called once for it and
\* not otherwise; the callback sends nothing, so sent changes only in the
\* periodic send, by 1.
C33_LoopStep ==
    /\ (harness.pc = "m_send" /\ harness'.pc = "m_tx") =>
           /\ harness.counter = SEND_PERIOD
           /\ args'.id = CAN_TX_MSG_ID /\ args'.data = MainData /\ args'.dlc = 8
    /\ Sent' # Sent => (harness.pc = "m_tx" /\ Sent' = Sent + 1)
    /\ (harness.pc # "m_inc" /\ harness'.pc = "m_inc") => harness.polls = 1
    /\ (harness.pc = "m_inc" /\ harness'.pc # "m_inc") => harness'.polls = 0
    /\ harness'.polls # harness.polls =>
           (harness.pc = "m_inc" \/ (harness.pc = "m_poll" /\ pc' = "rx_check"))
    /\ (harness.pc = "m_rx" /\ harness'.pc # "m_rx") =>
           IF ret = 1
           THEN harness'.pc = "m_proc" /\ harness'.rxMsg = msg
           ELSE ret = 0 /\ harness'.pc = "m_inc"
    /\ harness'.processed # harness.processed =>
           /\ harness.pc = "m_proc"
           /\ harness'.processed = harness.processed + 1
           /\ harness'.pc = "m_tog_rx"
           /\ pc' = "idle" /\ canStats' = canStats /\ txFrame' = txFrame
    /\ (harness.pc = "m_proc" /\ harness'.pc # "m_proc") =>
           harness'.processed = harness.processed + 1

C33_LoopState ==
    /\ harness.counter \in 0..SEND_PERIOD
    /\ harness.polls \in 0..1
    /\ harness.pc \notin {"m_rx", "m_proc"} => harness.processed = Received
    /\ harness.pc = "m_rx" =>
           Received = harness.processed + (IF pc = "rx_ret" /\ ret = 1
                                           THEN 1 ELSE 0)
    /\ harness.pc = "m_proc" => harness.processed + 1 = Received
    /\ harness.pc = "m_inc" =>
           /\ Sent = harness.iters \div SEND_PERIOD
           /\ harness.counter = harness.iters % SEND_PERIOD

C33_ApplicationLoop == [][C33_LoopStep]_vars /\ []C33_LoopState

C33_Witness ==
    /\ harness.pc = "m_inc"
    /\ harness.iters = 2 * SEND_PERIOD
    /\ Sent = 2
    /\ harness.processed = 2
    /\ messageReceived = 1

====
